---- MODULE Spec2Model ----
(***************************************************************************)
(* Model of the pub-crawl planner's ranking pipeline                       *)
(* (src/src/model_data.py): normalize_df, add_distance,                    *)
(* add_opening_hours_features, select_candidates, derive_weights,          *)
(* distance_score, compute_scores and rank_bars; and of the planning run   *)
(* of the app's input page (src/src/app.py, with the pipeline functions    *)
(* of src/src/helpers.py).                                                 *)
(*                                                                         *)
(* A pandas DataFrame is a record [cols, rows]: cols is the set of column  *)
(* names, rows the sequence of rows in table order; a row is [ix, c] with  *)
(* ix its index label and c a function from cols to cells.                 *)
(*                                                                         *)
(* A cell is a record [t, n, d, s]:                                        *)
(*   t = "num"  : the number n/d (a float; distances are whole metres,     *)
(*                coordinates whole milli-degrees, scores exact fractions) *)
(*   t = "nan"  : float NaN, pandas' missing marker                        *)
(*   t = "none" : Python None                                              *)
(*   t = "str"  : the string s                                             *)
(*   t = "bool" : True (n = 1) or False (n = 0)                            *)
(***************************************************************************)
EXTENDS Integers, Sequences, FiniteSets, TLC

\* Largest raw venue table of the pipeline specification.
MaxRows == 3
\* Largest requested route length k.
MaxK == 2
\* Largest candidate pool handed directly to compute_scores / rank_bars.
MaxPool == 3

VARIABLES
    raw,        \* the raw venue table the planning request loaded
    annotated,  \* the table handed to select_candidates
    pool,       \* the table handed to compute_scores / rank_bars
    df,         \* the table the last transform returned
    user,       \* <<user_lat, user_lon>> in milli-degrees
    k,          \* requested route length
    toggles,    \* the toggles of the last compute_scores / rank_bars call
    w,          \* the weights that call derived
    pc,         \* position in the pipeline
    clock,      \* the timestamp of the last add_opening_hours_features call
    before,     \* the table passed to the last transform, as it was at the call
    passed,     \* that same table object, as the caller sees it after the call
    module_weights, \* the module-level dict DEFAULT_WEIGHTS
    calls,      \* number of calls made so far (ranking engine, geocoder)
    session,    \* the app's st.session_state
    loaded,     \* the table load_df returned in the last planning run
    steps,      \* the pipeline functions the last planning run called, in order
    error,      \* how the last planning run ended; "no_route" once the map page found none
    geo,        \* the geocode_address call in progress or last made
    twin,       \* what the two copies of a pipeline function returned for one input
    cards       \* the deck the last script run loaded, <<>> when it loaded none

vars == <<raw, annotated, pool, df, user, k, toggles, w, pc, clock, before, passed,
          module_weights, calls, session, loaded, steps, error, geo, twin, cards>>

---------------------------------------------------------------------------
(* Cells *)

RECURSIVE GCD(_, _)
GCD(a, b) == IF b = 0 THEN a ELSE GCD(b, a % b)

Rat(n, d) ==
    LET g == GCD(n, d)
    IN  [t |-> "num", n |-> n \div g, d |-> d \div g, s |-> ""]

Num(n) == [t |-> "num", n |-> n, d |-> 1, s |-> ""]
NaN == [t |-> "nan", n |-> 0, d |-> 1, s |-> ""]
None == [t |-> "none", n |-> 0, d |-> 1, s |-> ""]
Str(s) == [t |-> "str", n |-> 0, d |-> 1, s |-> s]
Bool(b) == [t |-> "bool", n |-> IF b THEN 1 ELSE 0, d |-> 1, s |-> ""]

\* pd.isna
isna(cell) == cell.t \in {"nan", "none"}

\* Float arithmetic; NaN propagates.
FAdd(a, b) ==
    IF a.t = "nan" \/ b.t = "nan" THEN NaN
    ELSE Rat(a.n * b.d + b.n * a.d, a.d * b.d)

FMul(a, b) ==
    IF a.t = "nan" \/ b.t = "nan" THEN NaN
    ELSE Rat(a.n * b.n, a.d * b.d)

\* a < b on floats; every comparison with NaN is false.
FLess(a, b) == a.t = "num" /\ b.t = "num" /\ a.n * b.d < b.n * a.d

FLeq(a, b) == a.t = "num" /\ b.t = "num" /\ a.n * b.d <= b.n * a.d

---------------------------------------------------------------------------
(* DataFrames *)

NRows(t) == Len(t.rows)

\* row.get(col): None when the row has no such column.
RowGet(row, col) == IF col \in DOMAIN row.c THEN row.c[col] ELSE None

\* df[col] = vals
WithCol(t, col, vals) ==
    [cols |-> t.cols \cup {col},
     rows |-> [i \in 1..NRows(t) |->
                 [ix |-> t.rows[i].ix,
                  c  |-> [x \in t.cols \cup {col} |->
                            IF x = col THEN vals[i] ELSE t.rows[i].c[x]]]]]

\* df.head(n)
Head_n(t, n) ==
    [cols |-> t.cols,
     rows |-> SubSeq(t.rows, 1, IF n < NRows(t) THEN n ELSE NRows(t))]

\* df.reset_index(drop=True)
ResetIndex(t) ==
    [cols |-> t.cols,
     rows |-> [i \in 1..NRows(t) |-> [ix |-> i - 1, c |-> t.rows[i].c]]]

\* The rows of t in the order p (a permutation of 1..NRows(t)).
Reorder(t, p) ==
    [cols |-> t.cols, rows |-> [i \in 1..NRows(t) |-> t.rows[p[i]]]]

---------------------------------------------------------------------------
(* distance_m: the haversine distance in whole metres, tabulated for points *)
(* around 49 N whose coordinates differ by at most two milli-degrees.       *)

Abs(x) == IF x < 0 THEN -x ELSE x

distance_m(user_lat, user_lon, lat, lon) ==
    LET dphi == Abs(lat - user_lat)
        dlambda == Abs(lon - user_lon)
    IN  CASE dphi = 0 /\ dlambda = 0 -> 0
          [] dphi = 0 /\ dlambda = 1 -> 73
          [] dphi = 0 /\ dlambda = 2 -> 146
          [] dphi = 1 /\ dlambda = 0 -> 111
          [] dphi = 1 /\ dlambda = 1 -> 133
          [] dphi = 1 /\ dlambda = 2 -> 183
          [] dphi = 2 /\ dlambda = 0 -> 222
          [] dphi = 2 /\ dlambda = 1 -> 234
          [] dphi = 2 /\ dlambda = 2 -> 266

---------------------------------------------------------------------------
(* normalize_df *)

\* pd.to_numeric(errors="coerce") on one cell: a number stays, a numeric
\* string is parsed (to milli-degrees), everything else becomes NaN.
\* to_numeric that parses strings only: a number becomes missing.
to_numeric_strings_only(cell) ==
    CASE cell.t = "str" /\ cell.s = "49.000" -> Num(49000)
      [] cell.t = "str" /\ cell.s = "49.001" -> Num(49001)
      [] cell.t = "str" /\ cell.s = "49.002" -> Num(49002)
      [] cell.t = "str" /\ cell.s = "12.000" -> Num(12000)
      [] cell.t = "str" /\ cell.s = "12.001" -> Num(12001)
      [] cell.t = "str" /\ cell.s = "12.002" -> Num(12002)
      [] OTHER -> NaN

to_numeric(cell) ==
    CASE cell.t = "num" -> cell
      [] cell.t = "str" /\ cell.s = "49.000" -> Num(49000)
      [] cell.t = "str" /\ cell.s = "49.001" -> Num(49001)
      [] cell.t = "str" /\ cell.s = "49.002" -> Num(49002)
      [] cell.t = "str" /\ cell.s = "12.000" -> Num(12000)
      [] cell.t = "str" /\ cell.s = "12.001" -> Num(12001)
      [] cell.t = "str" /\ cell.s = "12.002" -> Num(12002)
      [] OTHER -> NaN

Column(t, col) == [i \in 1..NRows(t) |-> t.rows[i].c[col]]

\* df[col] = pd.to_numeric(df[col], errors="coerce")
NumericCol(t, col) ==
    [cols |-> t.cols,
     rows |-> [i \in 1..NRows(t) |->
                 [ix |-> t.rows[i].ix,
                  c  |-> [x \in t.cols |->
                            IF x = col THEN to_numeric(t.rows[i].c[x])
                            ELSE t.rows[i].c[x]]]]]

\* normalize_df that copies opening_hours over an existing opening_hours_raw.
normalize_df_always_copy(t) ==
    LET t1 == IF "lat" \in t.cols THEN NumericCol(t, "lat") ELSE t
        t2 == IF "lon" \in t1.cols THEN NumericCol(t1, "lon") ELSE t1
    IN  IF "opening_hours" \in t2.cols
        THEN WithCol(t2, "opening_hours_raw", Column(t2, "opening_hours"))
        ELSE t2

normalize_df(t) ==
    LET t1 == IF "lat" \in t.cols THEN NumericCol(t, "lat") ELSE t
        t2 == IF "lon" \in t1.cols THEN NumericCol(t1, "lon") ELSE t1
    IN  IF "opening_hours_raw" \notin t2.cols /\ "opening_hours" \in t2.cols
        THEN WithCol(t2, "opening_hours_raw", Column(t2, "opening_hours"))
        ELSE t2

---------------------------------------------------------------------------
(* add_distance *)

\* A column built from a Python list of floats and None: with at least one
\* float the column is float64 and None becomes NaN, otherwise it keeps None.
ListColumn(vals) ==
    IF \E i \in DOMAIN vals : vals[i].t = "num"
    THEN [i \in DOMAIN vals |-> IF vals[i].t = "none" THEN NaN ELSE vals[i]]
    ELSE vals

add_distance(t, user_lat, user_lon) ==
    LET dist(row) ==
            LET lat == RowGet(row, "lat")
                lon == RowGet(row, "lon")
            IN  IF isna(lat) \/ isna(lon) THEN None
                ELSE Num(distance_m(user_lat, user_lon, lat.n, lon.n))
    IN  WithCol(t, "distance_m",
                ListColumn([i \in 1..NRows(t) |-> dist(t.rows[i])]))

---------------------------------------------------------------------------
(* Strings: str(), strip() and lower() on the strings the model uses. *)

\* str(cell)
PyStr(cell) ==
    CASE cell.t = "str" -> cell.s
      [] cell.t = "nan" -> "nan"
      [] cell.t = "none" -> "None"
      [] cell.t = "bool" -> IF cell.n = 1 THEN "True" ELSE "False"
      [] OTHER -> "1.0"

\* s.strip()
Strip(s) ==
    CASE s = " " -> ""
      [] s = " NaN " -> "NaN"
      [] s = " x " -> "x"
      [] s = " Mo-Fr 09:00-17:00 " -> "Mo-Fr 09:00-17:00"
      [] OTHER -> s

\* s.lower()
Lower(s) ==
    CASE s = "NaN" -> "nan"
      [] s = "None" -> "none"
      [] s = "True" -> "true"
      [] s = "False" -> "false"
      [] OTHER -> s

\* The characters of the (stripped) hours texts the model uses.
Chars(s) ==
    CASE s = "Mo-Fr 09:00-17:00" ->
            <<"M", "o", "-", "F", "r", " ", "0", "9", ":", "0", "0", "-", "1", "7", ":", "0", "0">>
      [] s = "Fr-Sa 20:00-02:00" ->
            <<"F", "r", "-", "S", "a", " ", "2", "0", ":", "0", "0", "-", "0", "2", ":", "0", "0">>
      [] s = "Fr-Mo 10:00-12:00" ->
            <<"F", "r", "-", "M", "o", " ", "1", "0", ":", "0", "0", "-", "1", "2", ":", "0", "0">>
      [] s = "We-We 00:00-23:59" ->
            <<"W", "e", "-", "W", "e", " ", "0", "0", ":", "0", "0", "-", "2", "3", ":", "5", "9">>
      [] s = "Sa - Su 9:30 - 18:00" ->
            <<"S", "a", " ", "-", " ", "S", "u", " ", "9", ":", "3", "0", " ", "-", " ", "1", "8", ":", "0", "0">>
      [] s = "24/7" ->
            <<"2", "4", "/", "7">>
      [] s = "Mo-Fr 09:00-17:00; Sa 10:00-14:00" ->
            <<"M", "o", "-", "F", "r", " ", "0", "9", ":", "0", "0", "-", "1", "7", ":", "0", "0", ";", " ", "S", "a", " ", "1", "0", ":", "0", "0", "-", "1", "4", ":", "0", "0">>
      [] s = "Mo-Th 18:00-23:00, Fr-Sa 18:00-02:00" ->
            <<"M", "o", "-", "T", "h", " ", "1", "8", ":", "0", "0", "-", "2", "3", ":", "0", "0", ",", " ", "F", "r", "-", "S", "a", " ", "1", "8", ":", "0", "0", "-", "0", "2", ":", "0", "0">>
      [] s = "Mo-Fr 09:00-17:00; PH off" ->
            <<"M", "o", "-", "F", "r", " ", "0", "9", ":", "0", "0", "-", "1", "7", ":", "0", "0", ";", " ", "P", "H", " ", "o", "f", "f">>
      [] s = "PH off" ->
            <<"P", "H", " ", "o", "f", "f">>
      [] s = "open Mo-Fr 09:00-17:00 daily" ->
            <<"o", "p", "e", "n", " ", "M", "o", "-", "F", "r", " ", "0", "9", ":", "0", "0", "-", "1", "7", ":", "0", "0", " ", "d", "a", "i", "l", "y">>
      [] s = "Mo-Fr 9-17" ->
            <<"M", "o", "-", "F", "r", " ", "9", "-", "1", "7">>
      [] s = "Mo-Fr09:00-17:00" ->
            <<"M", "o", "-", "F", "r", "0", "9", ":", "0", "0", "-", "1", "7", ":", "0", "0">>
      [] s = "Mo" -> <<"M", "o">>
      [] s = "Tu" -> <<"T", "u">>
      [] s = "We" -> <<"W", "e">>
      [] s = "Th" -> <<"T", "h">>
      [] s = "Fr" -> <<"F", "r">>
      [] s = "Sa" -> <<"S", "a">>
      [] s = "Su" -> <<"S", "u">>

---------------------------------------------------------------------------
(* is_open_now_basic, add_opening_hours_features *)

days == <<"Mo", "Tu", "We", "Th", "Fr", "Sa", "Su">>

\* days.index(a), 0-based
DayIndex(a) == (CHOOSE i \in 1..7 : days[i] = a) - 1

\* The pattern
\*   (Mo|..|Su)\s*-\s*(Mo|..|Su)\s+(\d{1,2}:\d{2})\s*-\s*(\d{1,2}:\d{2})
\* matched on a sequence of characters cs.
WhiteSpace == {" "}

Digits == <<"0", "1", "2", "3", "4", "5", "6", "7", "8", "9">>

At(cs, i, c) == i <= Len(cs) /\ cs[i] = c

IsDigit(cs, i) == i <= Len(cs) /\ \E j \in 1..10 : Digits[j] = cs[i]

\* int() of the digit at position i
DigitAt(cs, i) == (CHOOSE j \in 1..10 : Digits[j] = cs[i]) - 1

\* (Mo|Tu|We|Th|Fr|Sa|Su) at position i: the day matched, or "" for none
DayAt(cs, i) ==
    IF i + 1 <= Len(cs) /\ \E d \in 1..7 : Chars(days[d]) = <<cs[i], cs[i + 1]>>
    THEN days[CHOOSE d \in 1..7 : Chars(days[d]) = <<cs[i], cs[i + 1]>>]
    ELSE ""

\* (\d{1,2}:\d{2}) at position i: two digits before the colon, or one; the
\* group as <<hours, minutes>> and the position after it.
TimeAt(cs, i) ==
    IF /\ IsDigit(cs, i) /\ IsDigit(cs, i + 1) /\ At(cs, i + 2, ":")
       /\ IsDigit(cs, i + 3) /\ IsDigit(cs, i + 4)
    THEN [ok |-> TRUE, next |-> i + 5,
          hm |-> <<DigitAt(cs, i) * 10 + DigitAt(cs, i + 1),
                   DigitAt(cs, i + 3) * 10 + DigitAt(cs, i + 4)>>]
    ELSE IF /\ IsDigit(cs, i) /\ At(cs, i + 1, ":")
            /\ IsDigit(cs, i + 2) /\ IsDigit(cs, i + 3)
    THEN [ok |-> TRUE, next |-> i + 4,
          hm |-> <<DigitAt(cs, i), DigitAt(cs, i + 2) * 10 + DigitAt(cs, i + 3)>>]
    ELSE [ok |-> FALSE, next |-> i, hm |-> <<0, 0>>]

\* re.search of the day-range/hour-range pattern: the four groups of the
\* first match (hours and minutes already split at the colon), or no match.
NoMatch == [ok |-> FALSE, a |-> "", b |-> "", start |-> <<0, 0>>, end |-> <<0, 0>>]

\* The rest of the pattern matched from position i on; m holds the groups
\* matched so far and part says which piece of the pattern comes next:
\*   1 (day)  2 \s*-  3 \s*(day)  4 \s  5 \s*(time)  6 \s*-  7 \s*(time)
RECURSIVE MatchFrom(_, _, _, _)
MatchFrom(cs, i, part, m) ==
    IF part \in {2, 3, 5, 6, 7} /\ i <= Len(cs) /\ cs[i] \in WhiteSpace
    THEN MatchFrom(cs, i + 1, part, m)
    ELSE CASE part = 1 ->
                IF DayAt(cs, i) # ""
                THEN MatchFrom(cs, i + 2, 2, [m EXCEPT !.a = DayAt(cs, i)])
                ELSE NoMatch
           [] part = 2 ->
                IF At(cs, i, "-") THEN MatchFrom(cs, i + 1, 3, m) ELSE NoMatch
           [] part = 3 ->
                IF DayAt(cs, i) # ""
                THEN MatchFrom(cs, i + 2, 4, [m EXCEPT !.b = DayAt(cs, i)])
                ELSE NoMatch
           [] part = 4 ->
                IF i <= Len(cs) /\ cs[i] \in WhiteSpace
                THEN MatchFrom(cs, i + 1, 5, m) ELSE NoMatch
           [] part = 5 ->
                IF TimeAt(cs, i).ok
                THEN MatchFrom(cs, TimeAt(cs, i).next, 6,
                               [m EXCEPT !.start = TimeAt(cs, i).hm])
                ELSE NoMatch
           [] part = 6 ->
                IF At(cs, i, "-") THEN MatchFrom(cs, i + 1, 7, m) ELSE NoMatch
           [] part = 7 ->
                IF TimeAt(cs, i).ok
                THEN [m EXCEPT !.ok = TRUE, !.end = TimeAt(cs, i).hm]
                ELSE NoMatch

\* the pattern matched with its first character at position i
MatchAt(cs, i) == MatchFrom(cs, i, 1, NoMatch)

\* the leftmost match in cs
FirstMatch(cs) ==
    LET found == {i \in 1..Len(cs) : MatchAt(cs, i).ok}
    IN  IF found = {} THEN NoMatch
        ELSE MatchAt(cs, CHOOSE i \in found : \A j \in found : i <= j)

ReSearch(s) == FirstMatch(Chars(s))

to_min(hm) == hm[1] * 60 + hm[2]

valid_days_no_wrap(ia, ib) == {days[i + 1] : i \in ia..ib}

\* the days of the range a-b, wrapping past Sunday when b comes before a
valid_days(ia, ib) ==
    IF ia <= ib
    THEN {days[i + 1] : i \in ia..ib}
    ELSE {days[i + 1] : i \in ia..6} \cup {days[i + 1] : i \in 0..ib}

in_hours_end_exclusive(start_min, end_min, now_min) ==
    IF start_min <= end_min
    THEN start_min <= now_min /\ now_min < end_min
    ELSE now_min >= start_min \/ now_min < end_min

in_hours_no_overnight(start_min, end_min, now_min) ==
    start_min <= now_min /\ now_min <= end_min

\* whether minute now_min lies in the hour range, which passes midnight
\* when it starts after it ends
in_hours(start_min, end_min, now_min) ==
    IF start_min <= end_min
    THEN start_min <= now_min /\ now_min <= end_min
    ELSE now_min >= start_min \/ now_min <= end_min

\* now is [weekday, hour, minute] with weekday 0 = Monday. The result is a
\* bool cell, or None for "not interpretable".
is_open_now_basic(opening_hours, now) ==
    IF opening_hours.t # "str" \/ Strip(opening_hours.s) = "" THEN None
    ELSE
        LET m == ReSearch(Strip(opening_hours.s))
        IN  IF ~m.ok THEN None
            ELSE
                LET ia == DayIndex(m.a)
                    ib == DayIndex(m.b)
                    wd == days[now.weekday + 1]
                    now_min == now.hour * 60 + now.minute
                    start_min == to_min(m.start)
                    end_min == to_min(m.end)
                IN  IF wd \notin valid_days(ia, ib) THEN Bool(FALSE)
                    ELSE Bool(in_hours(start_min, end_min, now_min))

add_opening_hours_features_unknown_closed(t, now) ==
    LET col == IF "opening_hours_raw" \in t.cols
               THEN "opening_hours_raw" ELSE "opening_hours"
        v(i) == is_open_now_basic(RowGet(t.rows[i], col), now)
        score(i) == IF v(i) = Bool(TRUE) THEN Num(1) ELSE Num(0)
    IN  WithCol(WithCol(t, "open_now", [i \in 1..NRows(t) |-> v(i)]),
                "open_score", [i \in 1..NRows(t) |-> score(i)])

add_opening_hours_features(t, now) ==
    LET col == IF "opening_hours_raw" \in t.cols
               THEN "opening_hours_raw" ELSE "opening_hours"
        v(i) == is_open_now_basic(RowGet(t.rows[i], col), now)
        score(i) ==
            IF v(i) = Bool(TRUE) THEN Num(1)
            ELSE IF v(i) = Bool(FALSE) THEN Num(0)
            ELSE Rat(1, 2)
    IN  WithCol(WithCol(t, "open_now", [i \in 1..NRows(t) |-> v(i)]),
                "open_score", [i \in 1..NRows(t) |-> score(i)])

---------------------------------------------------------------------------
(* Sorting.  sort_values on one column uses numpy's quicksort, which is    *)
(* not stable: every order that is sorted is a possible result.            *)
(* sort_values on several columns uses a stable lexicographic sort.  In    *)
(* both, missing values go last.                                           *)

\* Row a sorts strictly before row b by column col.
KeyBefore(a, b, col, ascending) ==
    LET x == a.c[col]
        y == b.c[col]
    IN  IF isna(x) THEN FALSE
        ELSE IF isna(y) THEN TRUE
        ELSE IF ascending THEN FLess(x, y) ELSE FLess(y, x)

KeySame(a, b, col) ==
    LET x == a.c[col]
        y == b.c[col]
    IN  (isna(x) /\ isna(y)) \/ (~isna(x) /\ ~isna(y) /\ ~FLess(x, y) /\ ~FLess(y, x))

\* df.sort_values(col, ascending=...): the possible row orders.
SortOrders1(rs, col, ascending) ==
    {p \in Permutations(1..Len(rs)) :
        \A i, j \in 1..Len(rs) :
            i < j => ~KeyBefore(rs[p[j]], rs[p[i]], col, ascending)}

\* RankBefore without the distance tie-breaker.
RankBefore_score_only(a, b) == KeyBefore(a, b, "score", FALSE)

\* Row a sorts strictly before row b by (score descending, distance_m ascending).
RankBefore(a, b) ==
    \/ KeyBefore(a, b, "score", FALSE)
    \/ KeySame(a, b, "score") /\ KeyBefore(a, b, "distance_m", TRUE)

\* df.sort_values(["score", "distance_m"], ascending=[False, True]): the row order.
SortOrder2(rs) ==
    CHOOSE p \in Permutations(1..Len(rs)) :
        \A i, j \in 1..Len(rs) :
            i < j => /\ ~RankBefore(rs[p[j]], rs[p[i]])
                     /\ (~RankBefore(rs[p[i]], rs[p[j]]) => p[i] < p[j])

---------------------------------------------------------------------------
(* select_candidates *)

\* dropna that drops nothing.
DropNa_keep_all(t, col) == t

\* df.dropna(subset=[col])
DropNa(t, col) ==
    LET keep(row) == ~isna(row.c[col])
    IN  [cols |-> t.cols, rows |-> SelectSeq(t.rows, keep)]

\* select_candidates that keeps k rows instead of 2k.
select_candidates_head_k(t, kk) ==
    LET valid == [cols |-> t.cols,
                  rows |-> SelectSeq(t.rows, LAMBDA row : ~isna(row.c["distance_m"]))]
    IN  {ResetIndex(Head_n(Reorder(valid, p), kk)) :
            p \in SortOrders1(valid.rows, "distance_m", TRUE)}

\* select_candidates sorting by distance descending.
select_candidates_descending(t, kk) ==
    LET valid == [cols |-> t.cols,
                  rows |-> SelectSeq(t.rows, LAMBDA row : ~isna(row.c["distance_m"]))]
    IN  {ResetIndex(Head_n(Reorder(valid, p), 2 * kk)) :
            p \in SortOrders1(valid.rows, "distance_m", FALSE)}

\* The possible results of select_candidates(t, kk).
select_candidates(t, kk) ==
    LET valid == DropNa(t, "distance_m")
    IN  {ResetIndex(Head_n(Reorder(valid, p), 2 * kk)) :
            p \in SortOrders1(valid.rows, "distance_m", TRUE)}

---------------------------------------------------------------------------
(* Weights *)

FEATURES == <<"food", "sportsbar", "surprise">>

FeatureSet == {FEATURES[i] : i \in 1..Len(FEATURES)}

DEFAULT_WEIGHTS ==
    [distance |-> Rat(5, 1), food |-> Rat(1, 2),
     sportsbar |-> Rat(1, 2), surprise |-> Rat(1, 2)]

\* The weight of a feature the user enabled.
EnabledWeight == 3

\* has_feature without the "nan" test.
has_feature_no_nan_test(cell) ==
    IF cell.t = "none" THEN FALSE
    ELSE Strip(PyStr(cell)) # ""

has_feature(cell) ==
    IF cell.t = "none" THEN FALSE
    ELSE LET s == Strip(PyStr(cell))
         IN  s # "" /\ Lower(s) # "nan"

\* derive_weights without its "nothing enabled" case: the override is always applied.
derive_weights_always_override(tg, base) ==
    [x \in DOMAIN base |->
        IF x \in FeatureSet
        THEN (IF tg[x] THEN Num(EnabledWeight) ELSE Num(0))
        ELSE base[x]]

\* derive_weights with the override inverted: enabled features get 0.0.
derive_weights_inverted(tg, base) ==
    LET enabled == {f \in FeatureSet : tg[f]}
    IN  IF enabled = {} THEN base
        ELSE [x \in DOMAIN base |->
                IF x \in FeatureSet
                THEN (IF tg[x] THEN Num(0) ELSE Num(EnabledWeight))
                ELSE base[x]]

\* derive_weights that leaves the features not enabled at their base weight.
derive_weights_keep_base(tg, base) ==
    LET enabled == {f \in FeatureSet : tg[f]}
    IN  IF enabled = {} THEN base
        ELSE [x \in DOMAIN base |->
                IF x \in FeatureSet /\ tg[x] THEN Num(EnabledWeight) ELSE base[x]]

derive_weights(tg, base) ==
    LET enabled == {f \in FeatureSet : tg[f]}
    IN  IF enabled = {} THEN base
        ELSE [x \in DOMAIN base |->
                IF x \in FeatureSet
                THEN (IF tg[x] THEN Num(EnabledWeight) ELSE Num(0))
                ELSE base[x]]

---------------------------------------------------------------------------
(* distance_score, compute_scores, rank_bars *)

\* df[col].min() and .max(): over the values that are not missing; NaN when
\* there is none.
ColValues(t, col) ==
    {t.rows[i].c[col].n : i \in {j \in 1..NRows(t) : t.rows[j].c[col].t = "num"}}

ColMin(t, col) ==
    IF ColValues(t, col) = {} THEN NaN
    ELSE Num(CHOOSE x \in ColValues(t, col) : \A y \in ColValues(t, col) : x <= y)

ColMax(t, col) ==
    IF ColValues(t, col) = {} THEN NaN
    ELSE Num(CHOOSE x \in ColValues(t, col) : \A y \in ColValues(t, col) : x >= y)

\* a - b and a / b on whole numbers held as floats; NaN propagates.
FSub(a, b) ==
    IF a.t = "nan" \/ b.t = "nan" THEN NaN ELSE Num(a.n - b.n)

FDiv(a, b) ==
    IF a.t = "nan" \/ b.t = "nan" THEN NaN ELSE Rat(a.n, b.n)

\* distance_score measured from the nearest instead of the farthest candidate.
distance_score_from_min(d, d_min, d_max) ==
    IF d.t = "none" THEN Num(0)
    ELSE
        LET denom == IF d_max.t # "none" /\ d_min.t # "none"
                     THEN FSub(d_max, d_min) ELSE Num(0)
        IN  IF denom.t = "num" /\ denom.n <= 0 THEN Rat(1, 2)
            ELSE FDiv(FSub(d, d_min), denom)

distance_score(d, d_min, d_max) ==
    IF d.t = "none" THEN Num(0)
    ELSE
        LET denom == IF d_max.t # "none" /\ d_min.t # "none"
                     THEN FSub(d_max, d_min) ELSE Num(0)
        IN  IF denom.t = "num" /\ denom.n <= 0 THEN Rat(1, 2)
            ELSE FDiv(FSub(d_max, d), denom)

\* row_bonus of compute_scores, under the weights ww.
row_bonus(row, ww) ==
    LET add(acc, f) ==
            IF f \in DOMAIN row.c /\ has_feature(RowGet(row, f))
            THEN FAdd(acc, ww[f]) ELSE acc
    IN  add(add(add(Num(0), FEATURES[1]), FEATURES[2]), FEATURES[3])

\* compute_scores after its first line: the scores under the weights ww
scores_from(t, ww) ==
    LET has == "distance_m" \in t.cols
        d_min == IF has THEN ColMin(t, "distance_m") ELSE None
        d_max == IF has THEN ColMax(t, "distance_m") ELSE None
        ds(i) == IF has
                 THEN distance_score(t.rows[i].c["distance_m"], d_min, d_max)
                 ELSE Num(0)
        t1 == WithCol(t, "_dist_score01", [i \in 1..NRows(t) |-> ds(i)])
        t2 == WithCol(t1, "pref_bonus",
                      [i \in 1..NRows(t) |-> row_bonus(t1.rows[i], ww)])
    IN  WithCol(t2, "score",
                [i \in 1..NRows(t) |->
                    FAdd(FMul(ww["distance"], t2.rows[i].c["_dist_score01"]),
                         t2.rows[i].c["pref_bonus"])])

\* compute_scores called while the module's DEFAULT_WEIGHTS has its initial
\* contents
compute_scores(t, tg) == scores_from(t, derive_weights(tg, DEFAULT_WEIGHTS))

\* rank_bars after its first line: the possible orders of the scored table
ranked_from(scored) ==
    IF "distance_m" \in scored.cols
    THEN {Reorder(scored, SortOrder2(scored.rows))}
    ELSE {Reorder(scored, p) : p \in SortOrders1(scored.rows, "score", FALSE)}

\* The possible results of rank_bars(t, tg).
rank_bars(t, tg) == ranked_from(compute_scores(t, tg))

---------------------------------------------------------------------------
(* Objects.  A transform receives a reference to the caller's table; the    *)
(* column assignments in its body change the object they are made on.       *)

DfCopy_same_object(obj) == obj

\* df.copy(): a new object
DfCopy(obj) == "copy"

DictCopy_same_object(obj) == obj

\* dict(base): a new object
DictCopy(obj) == "copy"

\* The contents of the caller's object after a call that worked on the
\* object `target` and left it with the contents `result`; t is what the
\* caller's object held at the call.
CallerSees(target, t, result) == IF target = "arg" THEN result ELSE t

---------------------------------------------------------------------------
(* Inputs *)

RawCols == {"name", "lat", "lon", "opening_hours", "food", "sportsbar", "surprise"}

Venue(name, lat, lon, hours, food, sportsbar, surprise) ==
    [name |-> Str(name), lat |-> lat, lon |-> lon, opening_hours |-> hours,
     food |-> food, sportsbar |-> sportsbar, surprise |-> surprise]

\* The venues a raw table is made of: valid coordinates as strings and as
\* floats, a non-numeric latitude, a missing longitude, feature cells that
\* are set, empty, "nan" and missing, and hours texts of every kind.
Venues ==
    {Venue("A", Str("49.000"), Str("12.000"), Str("Mo-Fr 09:00-17:00"), None, None, None),
     Venue("B", Num(49002), Str("12.000"), None, NaN, Str(""), Str("nan")),
     Venue("C", Str("49.002"), Str("12.001"), Str("Fr-Sa 20:00-02:00"), Str("yes"), None, None),
     Venue("D", Str("49.001"), Num(12001), Str("24/7"), None, Str("1"), Str(" ")),
     Venue("E", Str("abc"), Str("12.000"), Str(""), Str("yes"), None, None),
     Venue("F", Str("49.001"), None, None, None, None, None)}

\* A table with the columns cols whose rows are the cells in cs, indexed 0, 1, ...
Table(cols, cs) ==
    [cols |-> cols, rows |-> [i \in 1..Len(cs) |-> [ix |-> i - 1, c |-> cs[i]]]]

SeqsUpTo(S, n) == UNION {[1..m -> S] : m \in 0..n}

RawTables == {Table(RawCols, cs) : cs \in SeqsUpTo(Venues, MaxRows)}

Users == {<<49000, 12000>>, <<49001, 12002>>}

\* Wednesday 10:00 and Saturday 01:00.
Nows == {[weekday |-> 2, hour |-> 10, minute |-> 0],
         [weekday |-> 5, hour |-> 1, minute |-> 0]}

ToggleSets == [FeatureSet -> BOOLEAN]

EmptyTable == [cols |-> {}, rows |-> <<>>]

\* A session-state entry is [some, val]: some is FALSE when the entry is
\* None or its key is absent, and val is then a filler of the entry's type.
Set(v) == [some |-> TRUE, val |-> v]

NoNumber == [some |-> FALSE, val |-> 0]

NoTable == [some |-> FALSE, val |-> EmptyTable]

NoHtml == [some |-> FALSE, val |-> [user |-> <<0, 0>>, route |-> EmptyTable]]

\* no geocode_address call made yet; session_error is
\* st.session_state["geocode_last_error"], "unset" while the key is absent
NoGeocode ==
    [pc |-> "idle", attempt |-> 0, log |-> <<>>, pauses |-> <<>>, loc |-> <<>>,
     last_err |-> "None", result |-> <<>>, raised |-> "None",
     session_error |-> "unset"]

\* no pipeline function compared yet
NoTwin ==
    [fn |-> "none", raised |-> FALSE, helpers |-> {}, model_data |-> {}]

\* st.session_state after the defaults were filled in
InitialSession ==
    [page |-> "input", user_lat |-> NoNumber, user_lon |-> NoNumber,
     route_df |-> NoTable, map_html |-> NoHtml, card_assignment |-> <<>>]

NoToggles == [f \in FeatureSet |-> FALSE]

\* Feature cells of a pool row: nothing set; food only; sportsbar and surprise.
NoFeature == [food |-> None, sportsbar |-> Str(""), surprise |-> NaN]

FoodOnly == [food |-> Str("yes"), sportsbar |-> Str(" "), surprise |-> Str("nan")]

SportsSurprise == [food |-> Str(" NaN "), sportsbar |-> Bool(FALSE), surprise |-> Str(" x ")]

Profiles == {NoFeature, FoodOnly, SportsSurprise}

PoolRow(d, f) ==
    [distance_m |-> d, food |-> f.food, sportsbar |-> f.sportsbar, surprise |-> f.surprise]

\* Rows of a pool with a float distance_m column: valid distances with every
\* profile, and rows whose distance is missing.
FloatPoolRows ==
    {PoolRow(Num(d), f) : d \in {0, 120, 300}, f \in Profiles}
    \cup {PoolRow(NaN, f) : f \in {NoFeature, FoodOnly}}

\* Rows of a pool whose distance_m column holds None only (add_distance on a
\* table without any valid coordinate).
ObjectPoolRows == {PoolRow(None, f) : f \in Profiles}

\* Rows of a table that has no distance_m and no surprise column.
BarePoolRows == {[food |-> f.food, sportsbar |-> f.sportsbar] : f \in Profiles}

Pools ==
    {Table({"distance_m", "food", "sportsbar", "surprise"}, cs) :
        cs \in SeqsUpTo(FloatPoolRows, MaxPool) \cup SeqsUpTo(ObjectPoolRows, MaxPool)}
    \cup {Table({"food", "sportsbar"}, cs) : cs \in SeqsUpTo(BarePoolRows, MaxPool)}

---------------------------------------------------------------------------
(* The planning pipeline: raw table -> normalize -> distance -> opening     *)
(* hours -> candidates -> rank -> first k rows.                             *)

Init ==
    /\ raw \in RawTables
    /\ user \in Users
    /\ k \in 1..MaxK
    /\ df = raw
    /\ annotated = EmptyTable
    /\ pool = EmptyTable
    /\ toggles = NoToggles
    /\ w = DEFAULT_WEIGHTS
    /\ pc = "raw"
    /\ clock = [weekday |-> 0, hour |-> 0, minute |-> 0]
    /\ before = EmptyTable
    /\ passed = EmptyTable
    /\ module_weights = DEFAULT_WEIGHTS
    /\ calls = 0
    /\ session = InitialSession
    /\ loaded = EmptyTable
    /\ steps = <<>>
    /\ error = "none"
    /\ geo = NoGeocode
    /\ twin = NoTwin
    /\ cards = <<>>

Normalize ==
    /\ pc = "raw"
    /\ df' = normalize_df(raw)
    /\ pc' = "normalized"
    /\ before' = raw
    /\ passed' = CallerSees(DfCopy("arg"), raw, df')
    /\ UNCHANGED <<raw, annotated, pool, user, k, toggles, w, clock>>
    /\ UNCHANGED <<module_weights, calls, session, loaded, steps, error>>
    /\ UNCHANGED <<geo, twin, cards>>

AddDistance ==
    /\ pc = "normalized"
    /\ df' = add_distance(df, user[1], user[2])
    /\ pc' = "distance"
    /\ before' = df
    /\ passed' = CallerSees(DfCopy("arg"), df, df')
    /\ UNCHANGED <<raw, annotated, pool, user, k, toggles, w, clock>>
    /\ UNCHANGED <<module_weights, calls, session, loaded, steps, error>>
    /\ UNCHANGED <<geo, twin, cards>>

AddOpeningHours ==
    /\ pc = "distance"
    /\ \E n \in Nows :
          /\ clock' = n
          /\ df' = add_opening_hours_features(df, n)
    /\ annotated' = df'
    /\ pc' = "hours"
    /\ before' = df
    /\ passed' = CallerSees(DfCopy("arg"), df, df')
    /\ UNCHANGED <<raw, pool, user, k, toggles, w>>
    /\ UNCHANGED <<module_weights, calls, session, loaded, steps, error>>
    /\ UNCHANGED <<geo, twin, cards>>

SelectCandidates ==
    /\ pc = "hours"
    /\ \E r \in select_candidates(annotated, k) : df' = r /\ pool' = r
    /\ pc' = "candidates"
    /\ before' = annotated
    /\ passed' = annotated  \* dropna, sort_values, head and reset_index return new tables
    /\ UNCHANGED <<raw, annotated, user, k, toggles, w, clock>>
    /\ UNCHANGED <<module_weights, calls, session, loaded, steps, error>>
    /\ UNCHANGED <<geo, twin, cards>>

RankBars ==
    /\ pc \in {"candidates", "pool"}
    /\ \E tg \in ToggleSets :
          /\ toggles' = tg
          /\ w' = derive_weights(tg, DEFAULT_WEIGHTS)
          /\ df' \in rank_bars(pool, tg)
          /\ passed' = CallerSees(DfCopy("arg"), pool, compute_scores(pool, tg))
    /\ pc' = "ranked"
    /\ before' = pool
    /\ UNCHANGED <<raw, annotated, pool, user, k, clock>>
    /\ UNCHANGED <<module_weights, calls, session, loaded, steps, error>>
    /\ UNCHANGED <<geo, twin, cards>>

TopK ==
    /\ pc = "ranked"
    /\ df' = Head_n(df, k)
    /\ pc' = "route"
    /\ before' = df
    /\ passed' = df  \* head, copy and reset_index return new tables
    /\ UNCHANGED <<raw, annotated, pool, user, k, toggles, w, clock>>
    /\ UNCHANGED <<module_weights, calls, session, loaded, steps, error>>
    /\ UNCHANGED <<geo, twin, cards>>

Next ==
    \/ Normalize
    \/ AddDistance
    \/ AddOpeningHours
    \/ SelectCandidates
    \/ RankBars
    \/ TopK

Spec == Init /\ [][Next]_vars

---------------------------------------------------------------------------
(* The scorer and the ranker called directly on a candidate pool. *)

InitScore ==
    /\ pool \in Pools
    /\ df = pool
    /\ raw = EmptyTable
    /\ annotated = EmptyTable
    /\ user = <<49000, 12000>>
    /\ k = 1
    /\ toggles = NoToggles
    /\ w = DEFAULT_WEIGHTS
    /\ pc = "pool"
    /\ clock = [weekday |-> 0, hour |-> 0, minute |-> 0]
    /\ before = EmptyTable
    /\ passed = EmptyTable
    /\ module_weights = DEFAULT_WEIGHTS
    /\ calls = 0
    /\ session = InitialSession
    /\ loaded = EmptyTable
    /\ steps = <<>>
    /\ error = "none"
    /\ geo = NoGeocode
    /\ twin = NoTwin
    /\ cards = <<>>

ComputeScores ==
    /\ pc = "pool"
    /\ \E tg \in ToggleSets :
          /\ toggles' = tg
          /\ w' = derive_weights(tg, DEFAULT_WEIGHTS)
          /\ df' = compute_scores(pool, tg)
    /\ pc' = "scored"
    /\ before' = pool
    /\ passed' = CallerSees(DfCopy("arg"), pool, df')
    /\ UNCHANGED <<raw, annotated, pool, user, k, clock>>
    /\ UNCHANGED <<module_weights, calls, session, loaded, steps, error>>
    /\ UNCHANGED <<geo, twin, cards>>

NextScore ==
    \/ ComputeScores
    \/ RankBars

SpecScore == InitScore /\ [][NextScore]_vars

---------------------------------------------------------------------------
(* Properties *)

\* compute_scores or rank_bars has returned df for the pool and the toggles.
Scored == pc \in {"scored", "ranked"}

HasDistance(t) == "distance_m" \in t.cols

Dist(row) == row.c["distance_m"]

ValidDist(row) == Dist(row).t = "num"

Half == Rat(1, 2)

\* The feature cells that do not count as set: None, the missing marker, and
\* strings that are empty, blank or "nan".
AbsentCells == {None, NaN, Str(""), Str(" "), Str("nan"), Str(" NaN ")}

Present(row, f) == f \in DOMAIN row.c /\ row.c[f] \notin AbsentCells

PresentCount(row) == Cardinality({f \in FeatureSet : Present(row, f)})

ExactlyOne(f) == toggles[f] /\ \A g \in FeatureSet \ {f} : ~toggles[g]

\* C1 as stated: with no toggle enabled, two candidates at equal distance_m
\* have the same score, whatever their feature columns hold.
C1_EqualDistanceEqualScore ==
    (Scored /\ toggles = NoToggles /\ HasDistance(df)) =>
        \A i, j \in 1..NRows(df) :
            (ValidDist(df.rows[i]) /\ Dist(df.rows[i]) = Dist(df.rows[j])) =>
                df.rows[i].c["score"] = df.rows[j].c["score"]

\* C1 amended: with no toggle enabled, the scores of two candidates at equal
\* distance_m differ by exactly the base weight 0.5 per feature cell that is
\* set: they are equal when both have as many cells set, and otherwise the
\* candidate with more cells set has the higher score.
C1_BaseBonusPerSetFeature ==
    (Scored /\ toggles = NoToggles /\ HasDistance(df)) =>
        \A i, j \in 1..NRows(df) :
            (ValidDist(df.rows[i]) /\ Dist(df.rows[i]) = Dist(df.rows[j])) =>
                FAdd(df.rows[i].c["score"], Rat(PresentCount(df.rows[j]), 2))
                    = FAdd(df.rows[j].c["score"], Rat(PresentCount(df.rows[i]), 2))

\* Two candidates at one distance, one with more feature cells set, scored
\* with no toggle enabled.
C1_Witness ==
    /\ pc = "scored" /\ toggles = NoToggles /\ HasDistance(df)
    /\ \E i, j \in 1..NRows(df) :
          /\ ValidDist(df.rows[i]) /\ Dist(df.rows[i]) = Dist(df.rows[j])
          /\ PresentCount(df.rows[i]) = 2 /\ PresentCount(df.rows[j]) = 0
          /\ FLess(df.rows[j].c["score"], df.rows[i].c["score"])

\* C3: rank_bars returns exactly the rows of its pool, none dropped, none
\* duplicated, none cut off, ordered by score descending; of two rows with
\* equal score the one with the smaller distance_m comes first.
C3_RankedByScoreThenDistance ==
    pc = "ranked" =>
        /\ NRows(df) = NRows(pool)
        /\ \A i \in 1..NRows(pool) :
              \E j \in 1..NRows(df) :
                  /\ df.rows[j].ix = pool.rows[i].ix
                  /\ \A x \in pool.cols : df.rows[j].c[x] = pool.rows[i].c[x]
        /\ \A i, j \in 1..NRows(df) : i # j => df.rows[i].ix # df.rows[j].ix
        /\ \A i, j \in 1..NRows(df) :
              (i < j /\ df.rows[i].c["score"].t = "num" /\ df.rows[j].c["score"].t = "num") =>
                  /\ FLeq(df.rows[j].c["score"], df.rows[i].c["score"])
                  /\ (/\ df.rows[i].c["score"] = df.rows[j].c["score"]
                      /\ HasDistance(df)
                      /\ ValidDist(df.rows[i]) /\ ValidDist(df.rows[j]))
                        => Dist(df.rows[i]).n <= Dist(df.rows[j]).n

\* A ranking that moved the nearer of two rows with equal score ahead of the
\* farther one, and a row with a higher score ahead of both.
C3_Witness ==
    /\ pc = "ranked" /\ NRows(df) = 3 /\ HasDistance(df)
    /\ df.rows[2].c["score"] = df.rows[3].c["score"]
    /\ ValidDist(df.rows[2]) /\ ValidDist(df.rows[3])
    /\ Dist(df.rows[2]).n < Dist(df.rows[3]).n
    /\ df.rows[2].ix > df.rows[3].ix
    /\ FLess(df.rows[2].c["score"], df.rows[1].c["score"])

\* C6: with exactly one toggle enabled, a venue whose cell for that feature
\* is set scores strictly higher than a venue at the same distance whose
\* cell for it is missing, empty or "nan".
C6_EnabledFeatureScoresHigher ==
    (Scored /\ HasDistance(df)) =>
        \A f \in FeatureSet :
            ExactlyOne(f) =>
                \A i, j \in 1..NRows(df) :
                    (/\ ValidDist(df.rows[i]) /\ Dist(df.rows[i]) = Dist(df.rows[j])
                     /\ Present(df.rows[i], f) /\ ~Present(df.rows[j], f))
                        => FLess(df.rows[j].c["score"], df.rows[i].c["score"])

\* Only food enabled; two venues at one distance, food set for one and "nan"
\* for the other.
C6_Witness ==
    /\ pc = "scored" /\ ExactlyOne("food") /\ HasDistance(df)
    /\ \E i, j \in 1..NRows(df) :
          /\ ValidDist(df.rows[i]) /\ Dist(df.rows[i]) = Dist(df.rows[j])
          /\ df.rows[i].c["food"] = Str("yes")
          /\ df.rows[j].c["food"] = Str(" NaN ")
          /\ FLess(df.rows[j].c["score"], df.rows[i].c["score"])

\* C7: derive_weights returns the base set {distance 5.0, food 0.5, sportsbar
\* 0.5, surprise 0.5} when no toggle is enabled; otherwise every enabled
\* feature gets 3.0 and every other feature 0.0; the distance weight is 5.0
\* for every combination of toggles.
C7_DerivedWeights ==
    Scored =>
        /\ DOMAIN w = {"distance", "food", "sportsbar", "surprise"}
        /\ w["distance"] = Num(5)
        /\ \A f \in {"food", "sportsbar", "surprise"} :
              w[f] = IF \A g \in {"food", "sportsbar", "surprise"} : ~toggles[g]
                     THEN Half
                     ELSE IF toggles[f] THEN Num(3) ELSE Num(0)

\* Weights derived with food and surprise enabled and sportsbar not.
C7_Witness ==
    /\ Scored
    /\ toggles["food"] /\ ~toggles["sportsbar"] /\ toggles["surprise"]
    /\ w["food"] = Num(3) /\ w["sportsbar"] = Num(0) /\ w["distance"] = Num(5)

\* Every row of the pool has a valid distance and they are not all equal.
FullRange ==
    /\ HasDistance(pool)
    /\ \A i \in 1..NRows(pool) : ValidDist(pool.rows[i])
    /\ \E i, j \in 1..NRows(pool) : Dist(pool.rows[i]) # Dist(pool.rows[j])

\* d is the smallest (largest) distance of the pool.
IsPoolMin(d) ==
    /\ \E i \in 1..NRows(pool) : Dist(pool.rows[i]).n = d
    /\ \A i \in 1..NRows(pool) : d <= Dist(pool.rows[i]).n

IsPoolMax(d) ==
    /\ \E i \in 1..NRows(pool) : Dist(pool.rows[i]).n = d
    /\ \A i \in 1..NRows(pool) : d >= Dist(pool.rows[i]).n

DistScore(row) == row.c["_dist_score01"]

\* C8: on a pool whose rows all have a valid distance, not all equal, every
\* row's normalized distance score is (d_max - d) / (d_max - d_min) with d_min
\* and d_max taken over the pool; it lies in [0, 1], is 1 for the nearest and
\* 0 for the farthest row, and does not increase with the distance.
C8_NormalizedDistanceScore ==
    (Scored /\ FullRange) =>
        \A lo, hi \in {Dist(pool.rows[i]).n : i \in 1..NRows(pool)} :
            (IsPoolMin(lo) /\ IsPoolMax(hi)) =>
                \A i \in 1..NRows(df) :
                    LET x == DistScore(df.rows[i])
                        d == Dist(df.rows[i]).n
                    IN  /\ x.t = "num"
                        /\ x.n * (hi - lo) = (hi - d) * x.d
                        /\ 0 <= x.n /\ x.n <= x.d
                        /\ (d = lo => x = Num(1))
                        /\ (d = hi => x = Num(0))
                        /\ \A j \in 1..NRows(df) :
                              d <= Dist(df.rows[j]).n
                                  => FLeq(DistScore(df.rows[j]), x)

\* A pool with a nearest, a farthest and a row in between, scored 1, 0 and 3/5.
C8_Witness ==
    /\ pc = "scored" /\ FullRange /\ NRows(df) = 3
    /\ \E i, j, m \in 1..3 :
          /\ DistScore(df.rows[i]) = Num(1)
          /\ DistScore(df.rows[j]) = Rat(3, 5)
          /\ DistScore(df.rows[m]) = Num(0)

\* No discrimination by distance is possible for row i of the pool: the table
\* has no distance_m column, the row's distance is missing, or all candidates
\* share one distance.
NoDiscrimination(i) ==
    \/ ~HasDistance(pool)
    \/ ~ValidDist(pool.rows[i])
    \/ \A j \in 1..NRows(pool) : Dist(pool.rows[j]) = Dist(pool.rows[i])

\* C9: compute_scores gives the neutral normalized distance score 0.5 whenever
\* no discrimination by distance is possible: all candidates share one
\* distance, a row's distance_m is missing, or there is no distance_m column.
C9_NeutralWhenNoDiscrimination ==
    pc = "scored" =>
        \A i \in 1..NRows(df) :
            NoDiscrimination(i) => DistScore(df.rows[i]) = Half

\* The sum of the weights w of the features set in the row.
ExpectedBonus(row) ==
    LET part(f) == IF Present(row, f) THEN w[f] ELSE Num(0)
    IN  FAdd(FAdd(part("food"), part("sportsbar")), part("surprise"))

\* C10: every row's pref_bonus is the sum of the derived weights of exactly
\* the features whose cell is set (no column, None, an empty or blank string
\* and "nan" add nothing); score is the distance weight times the normalized
\* distance score plus pref_bonus; pref_bonus is never negative.
C10_BonusAndScore ==
    Scored =>
        \A i \in 1..NRows(df) :
            LET row == df.rows[i]
            IN  /\ row.c["pref_bonus"] = ExpectedBonus(row)
                /\ row.c["pref_bonus"].t = "num" /\ row.c["pref_bonus"].n >= 0
                /\ row.c["score"] =
                      FAdd(FMul(w["distance"], DistScore(row)), row.c["pref_bonus"])

\* A row with sportsbar and surprise set and food " NaN ", scored with food
\* and surprise enabled: its bonus is 3 and its score 5 * 3/5 + 3 = 6.
C10_Witness ==
    /\ pc = "scored" /\ HasDistance(df)
    /\ toggles["food"] /\ ~toggles["sportsbar"] /\ toggles["surprise"]
    /\ \E i \in 1..NRows(df) :
          /\ df.rows[i].c["food"] = Str(" NaN ")
          /\ df.rows[i].c["surprise"] = Str(" x ")
          /\ df.rows[i].c["pref_bonus"] = Num(3)
          /\ DistScore(df.rows[i]) = Rat(3, 5)
          /\ df.rows[i].c["score"] = Num(6)

---------------------------------------------------------------------------
(* Properties of the pipeline *)

\* The rows handed to select_candidates that have a valid distance.
ValidAnnotated == {j \in 1..NRows(annotated) : ValidDist(annotated.rows[j])}

Min(a, b) == IF a < b THEN a ELSE b

\* t holds the m nearest venues among those with a valid distance (all of
\* them when there are fewer), in ascending order of distance: fewer than i
\* venues are nearer than the i-th row, and every row is a venue of the table.
NearestInOrder(t, m) ==
    /\ NRows(t) = Min(m, Cardinality(ValidAnnotated))
    /\ \A i \in 1..NRows(t) :
          /\ ValidDist(t.rows[i])
          /\ \E j \in ValidAnnotated :
                \A x \in annotated.cols : annotated.rows[j].c[x] = t.rows[i].c[x]
          /\ Cardinality({j \in ValidAnnotated :
                Dist(annotated.rows[j]).n < Dist(t.rows[i]).n}) <= i - 1
          /\ Cardinality({j \in ValidAnnotated :
                Dist(annotated.rows[j]).n <= Dist(t.rows[i]).n}) >= i
    /\ \A i, j \in 1..NRows(t) : i < j => Dist(t.rows[i]).n <= Dist(t.rows[j]).n

\* C2 as stated: with no toggle enabled the first k rows of the ranking are
\* the k venues nearest to the user among those with valid coordinates, in
\* ascending order of distance, also when venues have feature cells set.
C2_NoTogglesKNearest ==
    (pc = "route" /\ toggles = NoToggles) => NearestInOrder(df, k)

\* C2 amended: with no toggle enabled the first k rows of the ranking are the
\* k nearest venues in ascending order of distance provided all venues of the
\* candidate pool have the same number of feature cells set.
C2_NoTogglesKNearestEqualFeatures ==
    (/\ pc = "route" /\ toggles = NoToggles
     /\ \A i, j \in 1..NRows(pool) :
           PresentCount(pool.rows[i]) = PresentCount(pool.rows[j]))
        => NearestInOrder(df, k)

\* A route of k = 2 venues cut from three with valid coordinates, each with
\* one feature cell set, that the raw table did not list nearest first.
C2_Witness ==
    /\ pc = "route" /\ toggles = NoToggles /\ k = 2
    /\ Cardinality(ValidAnnotated) = 3 /\ NRows(df) = 2
    /\ \A i \in 1..NRows(pool) : PresentCount(pool.rows[i]) = 1
    /\ \E i, j \in ValidAnnotated :
          i < j /\ Dist(annotated.rows[j]).n < Dist(annotated.rows[i]).n
    /\ Dist(df.rows[1]).n < Dist(df.rows[2]).n

\* C4: select_candidates(table, k) returns min(2k, number of rows with a valid
\* distance_m) rows, sorted ascending by distance_m, each at most as far as
\* every valid row it leaves out.
C4_NearestTwoK ==
    pc = "candidates" => NearestInOrder(df, 2 * k)

\* Three venues with valid distances not listed nearest first, k = 1: the two
\* nearest are returned, the third is left out.
C4_Witness ==
    /\ pc = "candidates" /\ k = 1
    /\ Cardinality(ValidAnnotated) = 3 /\ NRows(df) = 2
    /\ \E i, j \in ValidAnnotated :
          i < j /\ Dist(annotated.rows[j]).n < Dist(annotated.rows[i]).n
    /\ \E j \in ValidAnnotated : Dist(df.rows[2]).n < Dist(annotated.rows[j]).n

\* The coordinate cells pd.to_numeric can parse.
NumericTexts == {"49.000", "49.001", "49.002", "12.000", "12.001", "12.002"}

Numeric(cell) == cell.t = "num" \/ (cell.t = "str" /\ cell.s \in NumericTexts)

RawValid(row) == Numeric(row.c["lat"]) /\ Numeric(row.c["lon"])

\* C5: a venue whose lat or lon is missing or non-numeric in the raw table
\* gets a missing distance_m from add_distance and is in no result of
\* select_candidates, for any k and any user location.
C5_InvalidCoordinatesExcluded ==
    /\ pc = "distance" =>
          /\ NRows(df) = NRows(raw)
          /\ \A i \in 1..NRows(raw) :
                ~RawValid(raw.rows[i]) => ~ValidDist(df.rows[i])
    /\ pc = "candidates" =>
          \A i \in 1..NRows(df) : \A j \in 1..NRows(raw) :
              raw.rows[j].c["name"] = df.rows[i].c["name"] => RawValid(raw.rows[j])

\* A table with a venue without usable coordinates and fewer than 2k venues
\* with: the candidates are the venues with coordinates only.
C5_Witness ==
    /\ pc = "candidates"
    /\ \E j \in 1..NRows(raw) : raw.rows[j].c["lat"] = Str("abc")
    /\ \E j \in 1..NRows(raw) : raw.rows[j].c["lon"] = None
    /\ NRows(df) = 1 /\ NRows(raw) = 3 /\ 2 * k > NRows(raw)


---------------------------------------------------------------------------
(* The opening-hours evaluator called directly on a table of hours values. *)

\* Largest table handed directly to add_opening_hours_features.
MaxHoursRows == 1

\* Hours texts: one rule (plain, overnight, wrapping past Sunday, a single
\* day, spaced, padded), several rules, "24/7", a holiday exception, a rule
\* inside other text, texts that do not hold the pattern, empty and blank.
HoursTexts ==
    {"Mo-Fr 09:00-17:00", "Fr-Sa 20:00-02:00", "Fr-Mo 10:00-12:00",
     "We-We 00:00-23:59", "Sa - Su 9:30 - 18:00", " Mo-Fr 09:00-17:00 ",
     "Mo-Fr 09:00-17:00; Sa 10:00-14:00", "Mo-Th 18:00-23:00, Fr-Sa 18:00-02:00",
     "24/7", "Mo-Fr 09:00-17:00; PH off", "PH off", "open Mo-Fr 09:00-17:00 daily",
     "Mo-Fr 9-17", "Mo-Fr09:00-17:00", "", " "}

HoursCells == {Str(s) : s \in HoursTexts} \cup {None, NaN, Num(1)}

\* The hours values of the tables whose hours are not in opening_hours_raw
\* alone.
FewHoursCells ==
    {Str("Fr-Sa 20:00-02:00"), Str("Mo-Fr 09:00-17:00; PH off"), Str("24/7"),
     Str(""), None}

\* Tables with the hours in opening_hours_raw, in opening_hours, in
\* opening_hours_raw beside a different opening_hours, and without any
\* hours column.
HoursTables ==
    {Table({"opening_hours_raw"}, cs) :
        cs \in SeqsUpTo({[opening_hours_raw |-> c] : c \in HoursCells}, MaxHoursRows)}
    \cup {Table({"opening_hours"}, cs) :
        cs \in SeqsUpTo({[opening_hours |-> c] : c \in FewHoursCells}, MaxHoursRows)}
    \cup {Table({"opening_hours_raw", "opening_hours"}, cs) :
        cs \in SeqsUpTo({[opening_hours_raw |-> c,
                          opening_hours |-> Str("We-We 00:00-23:59")] :
                            c \in FewHoursCells}, MaxHoursRows)}
    \cup {Table({"name"}, cs) : cs \in SeqsUpTo({[name |-> Str("A")]}, MaxHoursRows)}

\* Clock times at and next to the ends of the rules' hour ranges.
ClockTimes ==
    {<<0, 0>>, <<1, 0>>, <<2, 0>>, <<2, 1>>, <<8, 59>>, <<9, 0>>, <<9, 30>>,
     <<10, 0>>, <<17, 0>>, <<17, 1>>, <<18, 0>>, <<20, 0>>}

HoursNows ==
    {[weekday |-> d, hour |-> t[1], minute |-> t[2]] : d \in 0..6, t \in ClockTimes}

InitHours ==
    /\ pool \in HoursTables
    /\ df = pool
    /\ raw = EmptyTable
    /\ annotated = EmptyTable
    /\ user = <<49000, 12000>>
    /\ k = 1
    /\ toggles = NoToggles
    /\ w = DEFAULT_WEIGHTS
    /\ pc = "table"
    /\ clock = [weekday |-> 0, hour |-> 0, minute |-> 0]
    /\ before = EmptyTable
    /\ passed = EmptyTable
    /\ module_weights = DEFAULT_WEIGHTS
    /\ calls = 0
    /\ session = InitialSession
    /\ loaded = EmptyTable
    /\ steps = <<>>
    /\ error = "none"
    /\ geo = NoGeocode
    /\ twin = NoTwin
    /\ cards = <<>>

AnnotateHours ==
    /\ pc = "table"
    /\ \E n \in HoursNows :
          /\ clock' = n
          /\ df' = add_opening_hours_features(pool, n)
    /\ pc' = "evaluated"
    /\ before' = pool
    /\ passed' = CallerSees(DfCopy("arg"), pool, df')
    /\ UNCHANGED <<raw, annotated, pool, user, k, toggles, w>>
    /\ UNCHANGED <<module_weights, calls, session, loaded, steps, error>>
    /\ UNCHANGED <<geo, twin, cards>>

NextHours == AnnotateHours

SpecHours == InitHours /\ [][NextHours]_vars

---------------------------------------------------------------------------
(* Properties of the opening-hours evaluator *)

\* The hours value of row i of the evaluated table.
HoursOf(i) ==
    IF "opening_hours_raw" \in pool.cols THEN pool.rows[i].c["opening_hours_raw"]
    ELSE IF "opening_hours" \in pool.cols THEN pool.rows[i].c["opening_hours"]
    ELSE None

\* The texts that are one day-range/hour-range rule, and what each says:
\* first and last day (0 = Monday), first and last minute of the day.
RuleTexts ==
    {"Mo-Fr 09:00-17:00", " Mo-Fr 09:00-17:00 ", "Fr-Sa 20:00-02:00",
     "Fr-Mo 10:00-12:00", "We-We 00:00-23:59", "Sa - Su 9:30 - 18:00"}

Rule(s) ==
    CASE s \in {"Mo-Fr 09:00-17:00", " Mo-Fr 09:00-17:00 "} ->
            [from |-> 0, to |-> 4, start |-> 540, end |-> 1020]
      [] s = "Fr-Sa 20:00-02:00" -> [from |-> 4, to |-> 5, start |-> 1200, end |-> 120]
      [] s = "Fr-Mo 10:00-12:00" -> [from |-> 4, to |-> 0, start |-> 600, end |-> 720]
      [] s = "We-We 00:00-23:59" -> [from |-> 2, to |-> 2, start |-> 0, end |-> 1439]
      [] s = "Sa - Su 9:30 - 18:00" -> [from |-> 5, to |-> 6, start |-> 570, end |-> 1080]

IsRule(cell) == cell.t = "str" /\ cell.s \in RuleTexts

\* weekday wd lies in the run of days of rule r, which wraps past Sunday
InDays(r, wd) ==
    IF r.from <= r.to THEN r.from <= wd /\ wd <= r.to
    ELSE wd >= r.from \/ wd <= r.to

ClockMinute == clock.hour * 60 + clock.minute

OpenNow(i) == df.rows[i].c["open_now"]

\* C11: for a rule text and a weekday inside its day set, the venue is open
\* exactly when: start <= end and start <= now <= end (both ends
\* included), or start > end (overnight) and now >= start or now <= end.
C11_OpenIffInHourRange ==
    pc = "evaluated" =>
        \A i \in 1..NRows(df) :
            (IsRule(HoursOf(i)) /\ InDays(Rule(HoursOf(i).s), clock.weekday)) =>
                LET r == Rule(HoursOf(i).s)
                IN  OpenNow(i) =
                        Bool(IF r.start <= r.end
                             THEN r.start <= ClockMinute /\ ClockMinute <= r.end
                             ELSE ClockMinute >= r.start \/ ClockMinute <= r.end)

\* "Mo-Fr 09:00-17:00" at the last minute of its range, Wednesday 17:00: open
C11_Witness ==
    /\ pc = "evaluated"
    /\ NRows(df) = 1
    /\ HoursOf(1) = Str("Mo-Fr 09:00-17:00")
    /\ clock = [weekday |-> 2, hour |-> 17, minute |-> 0]
    /\ OpenNow(1) = Bool(TRUE)

\* C12: the day set of a rule A-B is the inclusive run from A to B, wrapping
\* past Sunday when B comes before A: on a weekday outside it the venue is
\* closed whatever the time, and on every weekday inside it the venue is
\* open at the rule's start minute.
C12_DaySetIsCircularRun ==
    pc = "evaluated" =>
        \A i \in 1..NRows(df) :
            IsRule(HoursOf(i)) =>
                LET r == Rule(HoursOf(i).s)
                IN  /\ ~InDays(r, clock.weekday) => OpenNow(i) = Bool(FALSE)
                    /\ (InDays(r, clock.weekday) /\ ClockMinute = r.start)
                            => OpenNow(i) = Bool(TRUE)

\* "Fr-Mo 10:00-12:00" on a Sunday at 10:00: open
C12_Witness ==
    /\ pc = "evaluated"
    /\ NRows(df) = 1
    /\ HoursOf(1) = Str("Fr-Mo 10:00-12:00")
    /\ clock = [weekday |-> 6, hour |-> 10, minute |-> 0]
    /\ OpenNow(1) = Bool(TRUE)

\* The texts that are something other than one rule.
OtherTexts ==
    {"Mo-Fr 09:00-17:00; Sa 10:00-14:00", "Mo-Th 18:00-23:00, Fr-Sa 18:00-02:00",
     "24/7", "Mo-Fr 09:00-17:00; PH off", "PH off", "open Mo-Fr 09:00-17:00 daily",
     "Mo-Fr 9-17", "Mo-Fr09:00-17:00"}

\* C13: an hours text that is anything other than one single rule (several
\* rules, "24/7", holiday exceptions, a rule inside other text) evaluates
\* to unknown, never to open or closed.
C13_OtherTextIsUnknown ==
    pc = "evaluated" =>
        \A i \in 1..NRows(df) :
            (HoursOf(i).t = "str" /\ HoursOf(i).s \in OtherTexts) => OpenNow(i) = None

\* The texts that do not hold the pattern anywhere.
UnparsableTexts == {"24/7", "PH off", "Mo-Fr 9-17", "Mo-Fr09:00-17:00"}

NotInterpretable(cell) ==
    cell.t # "str" \/ cell.s \in {"", " "} \cup UnparsableTexts

\* C14: for every hours value and timestamp, also without an hours column,
\* every row gets open_now open, closed or unknown with open_score 1, 0 or
\* 1/2 to match; empty, non-string and unparsable values get unknown, 1/2.
C14_TriStateAndScore ==
    pc = "evaluated" =>
        /\ df.cols = pool.cols \cup {"open_now", "open_score"}
        /\ NRows(df) = NRows(pool)
        /\ \A i \in 1..NRows(df) :
              LET o == OpenNow(i)
                  sc == df.rows[i].c["open_score"]
              IN  /\ \/ o = Bool(TRUE) /\ sc = Num(1)
                     \/ o = Bool(FALSE) /\ sc = Num(0)
                     \/ o = None /\ sc = Rat(1, 2)
                  /\ NotInterpretable(HoursOf(i)) => o = None

\* a table without any hours column: unknown, 1/2
C14_Witness ==
    /\ pc = "evaluated"
    /\ pool.cols = {"name"}
    /\ NRows(df) = 1
    /\ OpenNow(1) = None
    /\ df.rows[1].c["open_score"] = Rat(1, 2)


---------------------------------------------------------------------------
(* The normalizer called on raw tables with every choice of hours columns,  *)
(* and called again on its own result.                                      *)

NormRow(name, lat, lon, hours, hours_raw) ==
    [name |-> Str(name), lat |-> lat, lon |-> lon,
     opening_hours |-> hours, opening_hours_raw |-> hours_raw]

\* Coordinates as text, as floats, not numeric and missing; the two hours
\* fields always differ.
NormRows ==
    {NormRow("A", Str("49.000"), Str("12.000"), Str("Mo-Fr 09:00-17:00"), Str("24/7")),
     NormRow("B", Num(49002), Str("12.001"), None, NaN),
     NormRow("C", Str("abc"), Str("12.000"), Str("Fr-Sa 20:00-02:00"), Str("")),
     NormRow("D", Str("49.001"), None, Str("24/7"), Str("Mo-Fr 09:00-17:00"))}

HoursColumnSets ==
    {{}, {"opening_hours"}, {"opening_hours_raw"}, {"opening_hours", "opening_hours_raw"}}

\* row r with the columns cols only
Project(r, cols) == [x \in cols |-> r[x]]

NormTables ==
    {Table({"name", "lat", "lon"} \cup hc,
           [i \in DOMAIN cs |-> Project(cs[i], {"name", "lat", "lon"} \cup hc)]) :
        hc \in HoursColumnSets, cs \in SeqsUpTo(NormRows, MaxRows)}

InitNorm ==
    /\ raw \in NormTables
    /\ df = raw
    /\ annotated = EmptyTable
    /\ pool = EmptyTable
    /\ user = <<49000, 12000>>
    /\ k = 1
    /\ toggles = NoToggles
    /\ w = DEFAULT_WEIGHTS
    /\ pc = "raw"
    /\ clock = [weekday |-> 0, hour |-> 0, minute |-> 0]
    /\ before = EmptyTable
    /\ passed = EmptyTable
    /\ module_weights = DEFAULT_WEIGHTS
    /\ calls = 0
    /\ session = InitialSession
    /\ loaded = EmptyTable
    /\ steps = <<>>
    /\ error = "none"
    /\ geo = NoGeocode
    /\ twin = NoTwin
    /\ cards = <<>>

\* normalize_df called on the table normalize_df returned
NormalizeAgain ==
    /\ pc = "normalized"
    /\ df' = normalize_df(df)
    /\ pc' = "renormalized"
    /\ before' = df
    /\ passed' = CallerSees(DfCopy("arg"), df, df')
    /\ UNCHANGED <<raw, annotated, pool, user, k, toggles, w, clock>>
    /\ UNCHANGED <<module_weights, calls, session, loaded, steps, error>>
    /\ UNCHANGED <<geo, twin, cards>>

NextNorm ==
    \/ Normalize
    \/ NormalizeAgain

SpecNorm == InitNorm /\ [][NextNorm]_vars

---------------------------------------------------------------------------
(* Properties of the normalizer *)

\* C15: normalize_df is idempotent: normalizing a normalized table returns a
\* table with identical contents, whichever hours columns the raw table
\* has and whether or not its coordinates parse.
C15_NormalizeIdempotent ==
    pc = "renormalized" => df = before

\* a table with only opening_hours, a float and an unparsable latitude
C15_Witness ==
    /\ pc = "renormalized"
    /\ "opening_hours_raw" \notin raw.cols
    /\ "opening_hours_raw" \in df.cols
    /\ \E i \in 1..NRows(raw) : raw.rows[i].c["lat"] = Str("abc")
    /\ \E i \in 1..NRows(raw) : raw.rows[i].c["lat"] = Num(49002)

\* the float a coordinate cell stands for, in milli-degrees; NaN for none
Degrees(cell) ==
    CASE cell = Str("49.000") -> Num(49000)
      [] cell = Str("49.001") -> Num(49001)
      [] cell = Str("49.002") -> Num(49002)
      [] cell = Str("12.000") -> Num(12000)
      [] cell = Str("12.001") -> Num(12001)
      [] cell = Num(49002) -> Num(49002)
      [] OTHER -> NaN

\* normalize_df keeps every row in place and parses lat and lon, a value
\* that does not parse becoming NaN
RowsKeptCoordinatesParsed ==
    /\ NRows(df) = NRows(raw)
    /\ \A i \in 1..NRows(raw) :
          /\ df.rows[i].ix = raw.rows[i].ix
          /\ df.rows[i].c["lat"] = Degrees(raw.rows[i].c["lat"])
          /\ df.rows[i].c["lon"] = Degrees(raw.rows[i].c["lon"])
          /\ \A x \in raw.cols \ {"lat", "lon"} : df.rows[i].c[x] = raw.rows[i].c[x]

\* C16 as stated: the normalized table has the same rows, parsed lat and
\* lon, and always contains opening_hours_raw.
C16_AlwaysHasHoursField ==
    pc = "normalized" =>
        /\ RowsKeptCoordinatesParsed
        /\ "opening_hours_raw" \in df.cols

\* C16: the normalized table has the same rows and parsed lat and lon; it
\* contains opening_hours_raw exactly when the raw table has
\* opening_hours_raw or opening_hours, copied from opening_hours when the
\* raw table has no opening_hours_raw and left as it is otherwise.
C16_HoursFieldFromAvailableSource ==
    pc = "normalized" =>
        /\ RowsKeptCoordinatesParsed
        /\ df.cols = raw.cols \cup
              (IF "opening_hours" \in raw.cols THEN {"opening_hours_raw"} ELSE {})
        /\ ("opening_hours_raw" \notin raw.cols /\ "opening_hours" \in raw.cols) =>
              \A i \in 1..NRows(raw) :
                  df.rows[i].c["opening_hours_raw"] = raw.rows[i].c["opening_hours"]

\* a raw table without any hours column: none is added
C16_Witness ==
    /\ pc = "normalized"
    /\ NRows(raw) >= 1
    /\ raw.cols = {"name", "lat", "lon"}
    /\ "opening_hours_raw" \notin df.cols


---------------------------------------------------------------------------
(* Properties of the pipeline's transforms as calls on table objects *)

C19_EmptyPoolEmptyResult ==
    (pc \in {"candidates", "ranked", "route"} /\ ValidAnnotated = {}) =>
        /\ NRows(pool) = 0
        /\ NRows(df) = 0
        /\ pc = "candidates" => df.cols = annotated.cols
        /\ pc \in {"ranked", "route"} =>
              df.cols = annotated.cols \cup {"_dist_score01", "pref_bonus", "score"}

\* two venues, none with valid coordinates, ranked: an empty result
C19_Witness ==
    /\ pc = "ranked"
    /\ NRows(annotated) = 2
    /\ ValidAnnotated = {}
    /\ NRows(df) = 0


---------------------------------------------------------------------------
(* The ranking engine called again and again in one process: planning       *)
(* requests with arbitrary toggles, each request's call running to its end  *)
(* before the next.  derive_weights reads the module-level dict             *)
(* DEFAULT_WEIGHTS, whose contents are part of the state.                   *)

\* Largest number of engine calls in one run.
MaxCalls == 2

EngineRows ==
    {PoolRow(Num(0), FoodOnly), PoolRow(Num(120), SportsSurprise),
     PoolRow(Num(300), NoFeature)}

EnginePools ==
    {Table({"distance_m", "food", "sportsbar", "surprise"}, cs) :
        cs \in SeqsUpTo(EngineRows, 2)}

InitEngine ==
    /\ module_weights = DEFAULT_WEIGHTS
    /\ calls = 0
    /\ pool = EmptyTable
    /\ df = EmptyTable
    /\ toggles = NoToggles
    /\ w = DEFAULT_WEIGHTS
    /\ pc = "idle"
    /\ raw = EmptyTable
    /\ annotated = EmptyTable
    /\ user = <<49000, 12000>>
    /\ k = 1
    /\ clock = [weekday |-> 0, hour |-> 0, minute |-> 0]
    /\ before = EmptyTable
    /\ passed = EmptyTable
    /\ session = InitialSession
    /\ loaded = EmptyTable
    /\ steps = <<>>
    /\ error = "none"
    /\ geo = NoGeocode
    /\ twin = NoTwin
    /\ cards = <<>>

\* derive_weights(toggles): base is the module's dict
DeriveWeightsCall ==
    /\ calls < MaxCalls
    /\ \E tg \in ToggleSets :
          /\ toggles' = tg
          /\ w' = derive_weights(tg, module_weights)
          /\ module_weights' = CallerSees(DictCopy("arg"), module_weights, w')
    /\ calls' = calls + 1
    /\ pc' = "weights"
    /\ UNCHANGED <<raw, annotated, pool, df, user, k, clock, before, passed>>
    /\ UNCHANGED <<session, loaded, steps, error>>
    /\ UNCHANGED <<geo, twin, cards>>

\* rank_bars(pool, toggles)
RankBarsCall ==
    /\ calls < MaxCalls
    /\ \E tg \in ToggleSets, p \in EnginePools :
          LET ww == derive_weights(tg, module_weights)
              scored == scores_from(p, ww)
          IN  /\ toggles' = tg
              /\ pool' = p
              /\ w' = ww
              /\ module_weights' = CallerSees(DictCopy("arg"), module_weights, ww)
              /\ df' \in ranked_from(scored)
              /\ before' = p
              /\ passed' = CallerSees(DfCopy("arg"), p, scored)
    /\ calls' = calls + 1
    /\ pc' = "ranked"
    /\ UNCHANGED <<raw, annotated, user, k, clock>>
    /\ UNCHANGED <<session, loaded, steps, error>>
    /\ UNCHANGED <<geo, twin, cards>>

NextEngine ==
    \/ DeriveWeightsCall
    \/ RankBarsCall

SpecEngine == InitEngine /\ [][NextEngine]_vars

\* what derive_weights returns for the toggles tg in a fresh process
FirstCallWeights(tg) ==
    IF \A f \in FeatureSet : ~tg[f]
    THEN [distance |-> Num(5), food |-> Rat(1, 2),
          sportsbar |-> Rat(1, 2), surprise |-> Rat(1, 2)]
    ELSE [distance |-> Num(5),
          food |-> IF tg["food"] THEN Num(3) ELSE Num(0),
          sportsbar |-> IF tg["sportsbar"] THEN Num(3) ELSE Num(0),
          surprise |-> IF tg["surprise"] THEN Num(3) ELSE Num(0)]

---------------------------------------------------------------------------
(* The app's input page (src/src/app.py): the route-length slider, the      *)
(* Reset button and the Let's Go! button, whose handler is the planning     *)
(* run; and the map page's "Neu planen" button.  The app imports its        *)
(* pipeline functions from helpers.py.                                      *)

\* Largest table load_df returns.
MaxAppRows == 1

\* helpers.normalize_df reads df["lat"] and df["lon"] without looking for
\* the columns: a KeyError when one is absent.
helpers_normalize_df_raises(t) == "lat" \notin t.cols \/ "lon" \notin t.cols

helpers_normalize_df(t) ==
    LET t1 == NumericCol(t, "lat")
        t2 == NumericCol(t1, "lon")
    IN  IF "opening_hours_raw" \notin t2.cols /\ "opening_hours" \in t2.cols
        THEN WithCol(t2, "opening_hours_raw", Column(t2, "opening_hours"))
        ELSE t2

\* reset_all()
\* reset_all that leaves the page as it is.
reset_all_keep_page(ss) ==
    [ss EXCEPT !.user_lat = NoNumber, !.user_lon = NoNumber,
               !.route_df = NoTable, !.card_assignment = <<>>]

\* def reset_all()
reset_all(ss) ==
    [ss EXCEPT !.page = "input", !.user_lat = NoNumber, !.user_lon = NoNumber,
               !.route_df = NoTable, !.card_assignment = <<>>]

required == {"name", "lat", "lon"}

\* The tables load_df can return: tables with every column, and a one-row
\* table for every choice of required columns missing.
AppVenues == {v \in Venues : v.name \in {Str("A"), Str("E")}}

AppTables ==
    {Table(RawCols, cs) : cs \in SeqsUpTo(AppVenues, MaxAppRows)}
    \cup {Table(RawCols \ gone, [i \in DOMAIN cs |-> Project(cs[i], RawCols \ gone)]) :
            gone \in SUBSET required, cs \in {<<v>> : v \in {w0 \in Venues : w0.name = Str("A")}}}

\* What load_df finds: no CSV file, or a file with a table.
CsvFiles ==
    {[found |-> FALSE, table |-> EmptyTable]}
    \cup {[found |-> TRUE, table |-> t] : t \in AppTables}

\* What geocode_address returns: (None, None), written <<>>, or a position.
GeocodeResults == {<<>>, <<49000, 12000>>, <<49001, 12002>>}

\* datetime.now() at the planning run: Wednesday 10:00
AppNows == {[weekday |-> 2, hour |-> 10, minute |-> 0]}

\* How a planning run ended, with the session it left behind.
Outcome(ss, t, st, err) == [session |-> ss, loaded |-> t, steps |-> st, error |-> err]

\* The body of `if do_calc:`.  g is the geocoder's answer, csv what load_df
\* finds, n the time, maps whether build_map_html (which calls the
\* walking-directions service) can return (TRUE), raise (FALSE) or both.  The
\* set of possible outcomes.
PlanningRun(ss, kk, g, csv, n, maps) ==
    IF g = <<>> THEN {Outcome(ss, EmptyTable, <<>>, "no_location")}
    ELSE
    LET s1 == [ss EXCEPT !.user_lat = Set(g[1]), !.user_lon = Set(g[2])]
    IN
    IF ~csv.found THEN {Outcome(s1, EmptyTable, <<>>, "csv_not_found")}
    ELSE IF helpers_normalize_df_raises(csv.table)
    THEN {Outcome(s1, csv.table, <<"normalize_df">>, "KeyError")}
    ELSE IF required \ helpers_normalize_df(csv.table).cols # {}
    THEN {Outcome(s1, csv.table, <<"normalize_df">>, "missing_columns")}
    ELSE
    LET d1 == add_distance(helpers_normalize_df(csv.table), g[1], g[2])
        d2 == add_opening_hours_features(d1, n)
        ran == <<"normalize_df", "add_distance", "add_opening_hours_features",
                 "select_candidates">>
    IN  {LET route_df == ResetIndex(Head_n(candidates, kk))
             s2 == [s1 EXCEPT !.route_df = Set(route_df)]
         IN  IF ~map_ok
             THEN Outcome(s2, csv.table, ran \o <<"build_map_html">>, "map_error")
             ELSE Outcome([s2 EXCEPT !.map_html = Set([user |-> g, route |-> route_df]),
                                     !.card_assignment = <<>>,
                                     !.page = "map"],
                          csv.table, ran \o <<"build_map_html">>, "none") :
            candidates \in select_candidates(d2, kk), map_ok \in maps}

\* The card decks load_cards can return, a card written as its id: ids may
\* repeat; <<>> stands for the [] the map page uses when load_cards raises.
MaxDeck == 2

CardIds == {"c1", "c2"}

Decks == SeqsUpTo(CardIds, MaxDeck)

\* rnd.shuffle(deck): the order depends on the day and the deck's length
Shuffles(cs) == {[i \in 1..Len(cs) |-> cs[p[i]]] : p \in Permutations(1..Len(cs))}

\* card_assignment is a dict bar name -> card id, written as the sequence
\* of its <<key, value>> items in insertion order
HasKey(a, key) == \E i \in 1..Len(a) : a[i][1] = key

Values(a) == {a[i][2] : i \in 1..Len(a)}

BarDefault(i) ==
    CASE i = 1 -> "Bar_1" [] i = 2 -> "Bar_2" [] i = 3 -> "Bar_3" [] OTHER -> "Bar_4"

\* bar_key = str(r.get("name", f"Bar_{i+1}")) for the row at position i
BarKey(t, i) ==
    IF "name" \in t.cols THEN PyStr(t.rows[i].c["name"]) ELSE BarDefault(i)

\* the first card of the deck whose id is not in used, else deck[i % len(deck)]
\* (i the row's index label, one less than its position)
Pick(deck, used, i) ==
    IF \E j \in 1..Len(deck) : deck[j] \notin used
    THEN deck[CHOOSE j \in 1..Len(deck) :
                 /\ deck[j] \notin used
                 /\ \A h \in 1..(j - 1) : deck[h] \in used]
    ELSE deck[((i - 1) % Len(deck)) + 1]

\* a loop that never adds the picked id to used
UsedAfter_forget(used, id) == used

\* used.add(pick["id"])
UsedAfter(used, id) == used \cup {id}

\* the loop over route_df.iterrows() from the row at position i on
RECURSIVE AssignFrom(_, _, _, _, _)
AssignFrom(a, used, t, deck, i) ==
    IF i > NRows(t) THEN a
    ELSE IF HasKey(a, BarKey(t, i)) THEN AssignFrom(a, used, t, deck, i + 1)
    ELSE AssignFrom(Append(a, <<BarKey(t, i), Pick(deck, used, i)>>),
                    UsedAfter(used, Pick(deck, used, i)), t, deck, i + 1)

\* the assignments assign_cards_to_route(route_df, cards) can leave in
\* st.session_state["card_assignment"], a being the one it finds there
assign_cards_to_route(a, t, cs) ==
    IF cs = <<>> THEN {a}
    ELSE {AssignFrom(a, Values(a), t, deck, 1) : deck \in Shuffles(cs)}

InitApp ==
    /\ session = InitialSession
    /\ k \in 1..MaxK
    /\ loaded = EmptyTable
    /\ steps = <<>>
    /\ error = "none"
    /\ geo = NoGeocode
    /\ twin = NoTwin
    /\ cards = <<>>
    /\ pc = "idle"
    /\ raw = EmptyTable
    /\ annotated = EmptyTable
    /\ pool = EmptyTable
    /\ df = EmptyTable
    /\ user = <<49000, 12000>>
    /\ toggles = NoToggles
    /\ w = DEFAULT_WEIGHTS
    /\ clock = [weekday |-> 0, hour |-> 0, minute |-> 0]
    /\ before = EmptyTable
    /\ passed = EmptyTable
    /\ module_weights = DEFAULT_WEIGHTS
    /\ calls = 0

\* the route-length slider
MoveSlider ==
    /\ session.page = "input"
    /\ \E kk \in 1..MaxK : kk # k /\ k' = kk
    /\ pc' = "idle"
    /\ UNCHANGED <<session, loaded, steps, error>>
    /\ cards' = <<>>
    /\ UNCHANGED <<geo, twin>>
    /\ UNCHANGED <<raw, annotated, pool, df, user, toggles, w, clock, before, passed,
                   module_weights, calls>>

\* the Reset button
Reset ==
    /\ session.page = "input"
    /\ session' = reset_all(session)
    /\ pc' = "idle"
    /\ UNCHANGED <<k, loaded, steps, error>>
    /\ cards' = <<>>
    /\ UNCHANGED <<geo, twin>>
    /\ UNCHANGED <<raw, annotated, pool, df, user, toggles, w, clock, before, passed,
                   module_weights, calls>>

\* the Let's Go! button
LetsGo ==
    /\ session.page = "input"
    /\ \E g \in GeocodeResults, csv \in CsvFiles, n \in AppNows :
          \E o \in PlanningRun(session, k, g, csv, n, BOOLEAN) :
              /\ session' = o.session
              /\ loaded' = o.loaded
              /\ steps' = o.steps
              /\ error' = o.error
    /\ pc' = "planned"
    /\ cards' = <<>>
    /\ UNCHANGED <<geo, twin>>
    /\ UNCHANGED <<k, raw, annotated, pool, df, user, toggles, w, clock, before, passed,
                   module_weights, calls>>

\* the map page's "Neu planen" button
NeuPlanen ==
    /\ session.page = "map"
    /\ session' = reset_all(session)
    /\ pc' = "idle"
    /\ UNCHANGED <<k, loaded, steps, error>>
    /\ cards' = <<>>
    /\ UNCHANGED <<geo, twin>>
    /\ UNCHANGED <<raw, annotated, pool, df, user, toggles, w, clock, before, passed,
                   module_weights, calls>>

\* a run of the map page's script: the guard against a missing route, then
\* load_cards (or [] when it raises) and assign_cards_to_route.  The done
\* check boxes and the progress store are not part of the session modelled.
ShowMap ==
    /\ session.page = "map"
    /\ pc' = "shown"
    /\ IF ~session.route_df.some \/ ~session.user_lat.some \/ ~session.user_lon.some
       THEN /\ error' = "no_route"
            /\ cards' = <<>>
            /\ UNCHANGED session
       ELSE /\ \E cs \in Decks :
                 /\ cards' = cs
                 /\ \E a \in assign_cards_to_route(session.card_assignment,
                                                   session.route_df.val, cs) :
                       session' = [session EXCEPT !.card_assignment = a]
            /\ UNCHANGED error
    /\ UNCHANGED <<k, loaded, steps, geo, twin>>
    /\ UNCHANGED <<raw, annotated, pool, df, user, toggles, w, clock, before, passed,
                   module_weights, calls>>

NextApp ==
    \/ MoveSlider
    \/ Reset
    \/ LetsGo
    \/ NeuPlanen
    \/ ShowMap

SpecApp == InitApp /\ [][NextApp]_vars

---------------------------------------------------------------------------
(* Properties of the planning run *)

\* the last click was Let's Go!, and load_df returned a table that lacks a
\* required column
RanOnTableMissingColumns ==
    /\ pc = "planned"
    /\ error \notin {"no_location", "csv_not_found"}
    /\ required \ loaded.cols # {}

\* C20: when the loaded table lacks name, lat or lon, planning stops with
\* the missing-columns error before any pipeline step has run on the table,
\* and the page stays "input".
C20_MissingColumnsStopBeforePipeline ==
    RanOnTableMissingColumns =>
        /\ error = "missing_columns"
        /\ steps = <<>>
        /\ session.page = "input"

---------------------------------------------------------------------------
(* Ties in distance *)

\* the one order of the rows of rs that is ascending in col and keeps rows
\* with equal keys in their order in rs
StableOrder(rs, col) ==
    CHOOSE p \in SortOrders1(rs, col, TRUE) :
        \A i, j \in 1..Len(rs) :
            (i < j /\ KeySame(rs[p[i]], rs[p[j]], col)) => p[i] < p[j]

\* the candidates a stable sort by distance would return
StableCandidates(t, kk) ==
    LET valid == DropNa(t, "distance_m")
    IN  ResetIndex(Head_n(Reorder(valid, StableOrder(valid.rows, "distance_m")),
                          2 * kk))

---------------------------------------------------------------------------
(* geocode_address *)

\* for attempt in range(3)
Attempts == 3

\* what geolocator.geocode(addr) can raise: geopy's errors, another
\* exception, and an interrupt, which is no subclass of Exception
GeocoderErrors == {"GeocoderTimedOut", "GeocoderUnavailable", "GeocoderServiceError"}

Raisable == GeocoderErrors \cup {"ValueError", "KeyboardInterrupt"}

\* the retry clause without its exception filter
Retryable_any_exception(e) == TRUE

\* except (GeocoderTimedOut, GeocoderUnavailable)
Retryable(e) == e \in {"GeocoderTimedOut", "GeocoderUnavailable"}

\* except Exception
IsException(e) == e # "KeyboardInterrupt"

\* time.sleep(0.8 * (attempt + 1)), in tenths of a second
Pause(attempt) == 8 * (attempt + 1)

InitGeocode ==
    /\ geo = NoGeocode
    /\ calls = 0
    /\ session = InitialSession
    /\ k = 1
    /\ loaded = EmptyTable
    /\ steps = <<>>
    /\ error = "none"
    /\ pc = "idle"
    /\ raw = EmptyTable
    /\ annotated = EmptyTable
    /\ pool = EmptyTable
    /\ df = EmptyTable
    /\ user = <<49000, 12000>>
    /\ toggles = NoToggles
    /\ w = DEFAULT_WEIGHTS
    /\ clock = [weekday |-> 0, hour |-> 0, minute |-> 0]
    /\ before = EmptyTable
    /\ passed = EmptyTable
    /\ module_weights = DEFAULT_WEIGHTS
    /\ twin = NoTwin
    /\ cards = <<>>

\* a call of geocode_address that the cache does not answer: lines 159-161
GeocodeCall ==
    /\ geo.pc \in {"idle", "returned", "raised"}
    /\ calls < MaxCalls
    /\ calls' = calls + 1
    /\ geo' = [NoGeocode EXCEPT !.pc = "try", !.session_error = geo.session_error]
    /\ UNCHANGED <<raw, annotated, pool, df, user, k, toggles, w, pc, clock, before,
                   passed, module_weights, session, loaded, steps, error, twin, cards>>

\* one pass through the try block: geolocator.geocode(addr) returns a
\* location, returns None, or raises
TryGeocode ==
    /\ geo.pc = "try"
    /\ \/ \E p \in Users :
             geo' = [geo EXCEPT !.log = Append(@, "found"), !.loc = p,
                                !.result = p, !.pc = "returned"]
       \/ geo' = [geo EXCEPT !.log = Append(@, "None"), !.pc = "returned"]
       \/ \E e \in Raisable :
             geo' = [geo EXCEPT !.log = Append(@, e),
                                !.last_err = IF IsException(e) THEN e ELSE @,
                                !.pc = IF Retryable(e) THEN "sleep"
                                       ELSE IF IsException(e) THEN "after_loop"
                                       ELSE "raised",
                                !.raised = IF ~Retryable(e) /\ ~IsException(e)
                                           THEN e ELSE @]
    /\ UNCHANGED <<raw, annotated, pool, df, user, k, toggles, w, pc, clock, before,
                   passed, module_weights, calls, session, loaded, steps, error,
                   twin, cards>>

\* the pause of the retry clause and the step to the next attempt
Sleep ==
    /\ geo.pc = "sleep"
    /\ geo' = [geo EXCEPT !.pauses = Append(@, Pause(geo.attempt)),
                          !.attempt = @ + 1,
                          !.pc = IF geo.attempt + 1 < Attempts THEN "try"
                                 ELSE "after_loop"]
    /\ UNCHANGED <<raw, annotated, pool, df, user, k, toggles, w, pc, clock, before,
                   passed, module_weights, calls, session, loaded, steps, error,
                   twin, cards>>

\* after the loop: store the last error and return (None, None)
AfterLoop ==
    /\ geo.pc = "after_loop"
    /\ geo' = [geo EXCEPT !.session_error = geo.last_err, !.pc = "returned"]
    /\ UNCHANGED <<raw, annotated, pool, df, user, k, toggles, w, pc, clock, before,
                   passed, module_weights, calls, session, loaded, steps, error,
                   twin, cards>>

NextGeocode ==
    \/ GeocodeCall
    \/ TryGeocode
    \/ Sleep
    \/ AfterLoop

SpecGeocode == InitGeocode /\ [][NextGeocode]_vars

\* the body of geocode_address runs to its end once called: every step of
\* it is taken when it is the next statement
SpecGeocodeFair ==
    SpecGeocode /\ WF_vars(TryGeocode) /\ WF_vars(Sleep) /\ WF_vars(AfterLoop)

\* what holds of a call at every point of it
GeocodeBounded ==
    /\ Len(geo.log) <= 3
    /\ \A i \in 1..(Len(geo.log) - 1) :
          /\ geo.log[i] \in {"GeocoderTimedOut", "GeocoderUnavailable"}
          /\ i <= Len(geo.pauses)
    /\ \A i \in 1..(Len(geo.pauses) - 1) : geo.pauses[i] < geo.pauses[i + 1]
    /\ geo.raised \notin GeocoderErrors
    /\ geo.pc = "returned" =>
          \/ geo.result = <<>>
          \/ /\ geo.log[Len(geo.log)] = "found"
             /\ geo.result = geo.loc

\* C22: geocode_address makes at most 3 geocoding attempts per call, retries
\* (after a growing pause) only after a timed-out or unavailable error, stops
\* at once on a not-found result or any other exception, terminates with the
\* (lat, lon) of a successful attempt or (None, None), and lets no geocoder
\* exception escape.
C22_AtMostThreeAttempts ==
    /\ []GeocodeBounded
    /\ (geo.pc = "try") ~> (geo.pc \in {"returned", "raised"})

\* a call that timed out, was refused as unavailable, and then found the
\* address on its third attempt
C22_Witness ==
    /\ geo.pc = "returned"
    /\ geo.log = <<"GeocoderTimedOut", "GeocoderUnavailable", "found">>
    /\ geo.pauses = <<8, 16>>
    /\ geo.result \in Users

---------------------------------------------------------------------------
(* The map page *)

\* the session holds a position and a route, and the map stored with them
\* was built from exactly that position and route
MapMatchesRoute ==
    /\ session.user_lat.some
    /\ session.user_lon.some
    /\ session.route_df.some
    /\ session.map_html.some
    /\ session.map_html.val =
          [user |-> <<session.user_lat.val, session.user_lon.val>>,
           route |-> session.route_df.val]

\* C23: in every reachable session state page = "map" implies that user_lat,
\* user_lon and route_df are set and that map_html was built from exactly
\* that route and position; the map page's no-route branch is never taken,
\* and a failed planning attempt never leaves the session on the map page.
C23_MapPageHasRouteAndMap ==
    /\ session.page = "map" => MapMatchesRoute
    /\ error # "no_route"
    /\ (pc = "planned" /\ error # "none") => session.page = "input"

\* the map page shown for a second plan, made from another position than the
\* first, after a run of its script
C23_Witness ==
    /\ session.page = "map"
    /\ pc = "shown"
    /\ session.user_lat.val = 49001
    /\ NRows(session.route_df.val) = 1
    /\ session.map_html.val.user = <<49001, 12002>>

---------------------------------------------------------------------------
(* Cards of a route *)

MaxRoute == 2

\* the names of a route's bars: two names and a missing one, whose key is "nan"
BarNames == {Str("A"), Str("B"), NaN}

CardRoutes ==
    {Table({"name"}, cs) : cs \in SeqsUpTo({[name |-> n] : n \in BarNames}, MaxRoute)}

\* the session a successful planning run leaves: the map page, a route, the
\* map built from it, and an empty card assignment
InitCards ==
    /\ \E r \in CardRoutes :
          session = [page |-> "map",
                     user_lat |-> Set(49000), user_lon |-> Set(12000),
                     route_df |-> Set(r),
                     map_html |-> Set([user |-> <<49000, 12000>>, route |-> r]),
                     card_assignment |-> <<>>]
    /\ pc = "planned"
    /\ cards = <<>>
    /\ k = 1
    /\ loaded = EmptyTable
    /\ steps = <<>>
    /\ error = "none"
    /\ raw = EmptyTable
    /\ annotated = EmptyTable
    /\ pool = EmptyTable
    /\ df = EmptyTable
    /\ user = <<49000, 12000>>
    /\ toggles = NoToggles
    /\ w = DEFAULT_WEIGHTS
    /\ clock = [weekday |-> 0, hour |-> 0, minute |-> 0]
    /\ before = EmptyTable
    /\ passed = EmptyTable
    /\ module_weights = DEFAULT_WEIGHTS
    /\ calls = 0
    /\ geo = NoGeocode
    /\ twin = NoTwin

\* the reruns of the map page
NextCards == ShowMap

SpecCards == InitCards /\ [][NextCards]_vars

\* the bar keys of a route
BarKeys(t) == {BarKey(t, i) : i \in 1..NRows(t)}

\* the distinct ids of a deck
Ids(cs) == {cs[i] : i \in 1..Len(cs)}

\* every bar of the route has a card, and bars with different names have
\* cards with different ids
EachBarItsOwnCard(a, t) ==
    /\ \A key \in BarKeys(t) : HasKey(a, key)
    /\ \A i, j \in 1..Len(a) : a[i][1] # a[j][1] => a[i][2] # a[j][2]

\* every item of assignment a is an item of b, at the same place
KeepsEntries(a, b) ==
    /\ Len(a) <= Len(b)
    /\ \A i \in 1..Len(a) : b[i] = a[i]

\* what a run of the map page's script does to the card assignment
AssignsOnceAndForAll ==
    (session.page = "map" /\ pc' = "shown") =>
        /\ (/\ session.card_assignment = <<>>
            /\ Cardinality(Ids(cards')) >= Cardinality(BarKeys(session.route_df.val)))
              => EachBarItsOwnCard(session'.card_assignment, session.route_df.val)
        /\ KeepsEntries(session.card_assignment, session'.card_assignment)

\* C24: starting from the empty assignment of a new plan, if the deck has at
\* least as many distinct card ids as the route has distinct bar names, then
\* after assign_cards_to_route every bar has a card and no two differently
\* named bars share a card id; and any later call, whatever the deck and its
\* order, leaves every existing bar -> card entry unchanged.
C24_DistinctCardsKeptOnRerun ==
    [][AssignsOnceAndForAll]_vars

\* two bars holding different cards, after a later run that loaded a deck
\* of a single card
C24_Witness ==
    /\ pc = "shown"
    /\ Len(session.card_assignment) = 2
    /\ session.card_assignment[1][2] # session.card_assignment[2][2]
    /\ Len(cards) = 1

---------------------------------------------------------------------------
(* The copies of the pipeline in helpers.py *)

\* helpers.add_distance
helpers_add_distance(t, user_lat, user_lon) ==
    LET dist(row) ==
            LET lat == RowGet(row, "lat")
                lon == RowGet(row, "lon")
            IN  IF isna(lat) \/ isna(lon) THEN None
                ELSE Num(distance_m(user_lat, user_lon, lat.n, lon.n))
    IN  WithCol(t, "distance_m",
                ListColumn([i \in 1..NRows(t) |-> dist(t.rows[i])]))

\* helpers.is_open_now_basic
helpers_is_open_now_basic(opening_hours, now) ==
    IF opening_hours.t # "str" \/ Strip(opening_hours.s) = "" THEN None
    ELSE IF ~ReSearch(Strip(opening_hours.s)).ok THEN None
    ELSE IF days[now.weekday + 1] \notin
               valid_days(DayIndex(ReSearch(Strip(opening_hours.s)).a),
                          DayIndex(ReSearch(Strip(opening_hours.s)).b))
    THEN Bool(FALSE)
    ELSE Bool(in_hours(to_min(ReSearch(Strip(opening_hours.s)).start),
                       to_min(ReSearch(Strip(opening_hours.s)).end),
                       now.hour * 60 + now.minute))

\* helpers.add_opening_hours_features
helpers_add_opening_hours_features(t, now) ==
    LET col == IF "opening_hours_raw" \in t.cols
               THEN "opening_hours_raw" ELSE "opening_hours"
        v(i) == helpers_is_open_now_basic(RowGet(t.rows[i], col), now)
        score(i) ==
            IF v(i) = Bool(TRUE) THEN Num(1)
            ELSE IF v(i) = Bool(FALSE) THEN Num(0)
            ELSE Rat(1, 2)
    IN  WithCol(WithCol(t, "open_now", [i \in 1..NRows(t) |-> v(i)]),
                "open_score", [i \in 1..NRows(t) |-> score(i)])

\* helpers.select_candidates: its possible results
helpers_select_candidates(t, kk) ==
    LET valid == DropNa(t, "distance_m")
    IN  {ResetIndex(Head_n(Reorder(valid, p), 2 * kk)) :
            p \in SortOrders1(valid.rows, "distance_m", TRUE)}

\* what the two copies of function fn gave for one input: whether the
\* helpers.py copy raised, and the possible results of each copy (the
\* model_data.py copies raise on none of the tables used here)
Twin(fn, raised, h, m) ==
    [fn |-> fn, raised |-> raised, helpers |-> IF raised THEN {} ELSE h,
     model_data |-> m]

InitCopies ==
    /\ raw \in AppTables
    /\ user \in Users
    /\ k \in 1..MaxK
    /\ df = raw
    /\ pc = "raw"
    /\ twin = NoTwin
    /\ clock = [weekday |-> 0, hour |-> 0, minute |-> 0]
    /\ annotated = EmptyTable
    /\ pool = EmptyTable
    /\ toggles = NoToggles
    /\ w = DEFAULT_WEIGHTS
    /\ before = EmptyTable
    /\ passed = EmptyTable
    /\ module_weights = DEFAULT_WEIGHTS
    /\ calls = 0
    /\ session = InitialSession
    /\ loaded = EmptyTable
    /\ steps = <<>>
    /\ error = "none"
    /\ geo = NoGeocode
    /\ cards = <<>>

\* both copies of normalize_df on the raw table
CompareNormalize ==
    /\ pc = "raw"
    /\ twin' = Twin("normalize_df", helpers_normalize_df_raises(df),
                    {helpers_normalize_df(df)}, {normalize_df(df)})
    /\ df' = normalize_df(df)
    /\ pc' = "normalized"
    /\ UNCHANGED <<raw, annotated, pool, user, k, toggles, w, clock, before, passed,
                   module_weights, calls, session, loaded, steps, error, geo, cards>>

\* both copies of add_distance on the normalized table
CompareAddDistance ==
    /\ pc = "normalized"
    /\ twin' = Twin("add_distance", FALSE,
                    {helpers_add_distance(df, user[1], user[2])},
                    {add_distance(df, user[1], user[2])})
    /\ df' = add_distance(df, user[1], user[2])
    /\ pc' = "distance"
    /\ UNCHANGED <<raw, annotated, pool, user, k, toggles, w, clock, before, passed,
                   module_weights, calls, session, loaded, steps, error, geo, cards>>

\* both copies of add_opening_hours_features (and with them both copies of
\* is_open_now_basic, once per row) at one timestamp
CompareOpeningHours ==
    /\ pc = "distance"
    /\ \E n \in Nows :
          /\ clock' = n
          /\ twin' = Twin("add_opening_hours_features", FALSE,
                          {helpers_add_opening_hours_features(df, n)},
                          {add_opening_hours_features(df, n)})
          /\ df' = add_opening_hours_features(df, n)
    /\ pc' = "hours"
    /\ UNCHANGED <<raw, annotated, pool, user, k, toggles, w, before, passed,
                   module_weights, calls, session, loaded, steps, error, geo, cards>>

\* both copies of select_candidates on the annotated table
CompareSelectCandidates ==
    /\ pc = "hours"
    /\ twin' = Twin("select_candidates", FALSE,
                    helpers_select_candidates(df, k), select_candidates(df, k))
    /\ df' \in select_candidates(df, k)
    /\ pc' = "candidates"
    /\ UNCHANGED <<raw, annotated, pool, user, k, toggles, w, clock, before, passed,
                   module_weights, calls, session, loaded, steps, error, geo, cards>>

NextCopies ==
    \/ CompareNormalize
    \/ CompareAddDistance
    \/ CompareOpeningHours
    \/ CompareSelectCandidates

SpecCopies == InitCopies /\ [][NextCopies]_vars

\* C25: for every table, user location, timestamp and k the helpers.py
\* versions of normalize_df, add_distance, is_open_now_basic,
\* add_opening_hours_features and select_candidates return the same result,
\* or fail on the same inputs, as the model_data.py versions.
C25_CopiesAgree ==
    twin.fn # "none" => (~twin.raised /\ twin.helpers = twin.model_data)

====
